---- MODULE Spec2Model ----
(***************************************************************************)
(* Nozzle design core: Mach-from-area-ratio inversion, flow-regime         *)
(* classification, contour families, segment builders and the performance  *)
(* evaluator.                                                              *)
(*                                                                         *)
(* Python floats are modelled as signed decimal fixed-point numbers with   *)
(* twelve fractional digits (one unit = 1e-12).  A number is a record      *)
(* [neg, mag] whose magnitude is a little-endian sequence of base-10^4     *)
(* limbs without leading zeros, so that every product of two limbs fits    *)
(* the checker's machine integers.  Products and quotients are truncated   *)
(* toward zero at the twelfth digit.                                       *)
(***************************************************************************)
EXTENDS Integers, Sequences, FiniteSets, TLC

Base == 10^4

----------------------------------------------------------------------------
(* Magnitudes: little-endian limb sequences, <<>> is zero.                 *)

RECURSIVE MNorm(_)
MNorm(m) ==
    IF m = <<>> THEN m
    ELSE IF m[Len(m)] = 0 THEN MNorm(SubSeq(m, 1, Len(m) - 1)) ELSE m

\* the i-th limb, zero above the leading limb
Limb(m, i) == IF i >= 1 /\ i <= Len(m) THEN m[i] ELSE 0

RECURSIVE MCmpFrom(_, _, _)
MCmpFrom(a, b, i) ==
    IF i = 0 THEN 0
    ELSE IF a[i] < b[i] THEN -1
    ELSE IF a[i] > b[i] THEN 1
    ELSE MCmpFrom(a, b, i - 1)

MCmp(a, b) ==
    IF Len(a) < Len(b) THEN -1
    ELSE IF Len(a) > Len(b) THEN 1
    ELSE MCmpFrom(a, b, Len(a))

RECURSIVE MAddAt(_, _, _, _)
MAddAt(a, b, i, c) ==
    IF i > Len(a) /\ i > Len(b)
    THEN (IF c = 0 THEN <<>> ELSE <<c>>)
    ELSE <<(Limb(a, i) + Limb(b, i) + c) % Base>>
         \o MAddAt(a, b, i + 1, (Limb(a, i) + Limb(b, i) + c) \div Base)

MAdd(a, b) == MAddAt(a, b, 1, 0)

RECURSIVE MSubAt(_, _, _, _)
MSubAt(a, b, i, bw) ==
    IF i > Len(a) THEN <<>>
    ELSE <<(a[i] - Limb(b, i) - bw + Base) % Base>>
         \o MSubAt(a, b, i + 1, IF a[i] - Limb(b, i) - bw < 0 THEN 1 ELSE 0)

\* a - b for a >= b
MSub(a, b) == MNorm(MSubAt(a, b, 1, 0))

RECURSIVE MMulSAt(_, _, _, _)
MMulSAt(a, d, i, c) ==
    IF i > Len(a)
    THEN (IF c = 0 THEN <<>> ELSE <<c>>)
    ELSE <<(a[i] * d + c) % Base>> \o MMulSAt(a, d, i + 1, (a[i] * d + c) \div Base)

\* a * d for one limb d
MMulS(a, d) == IF d = 0 THEN <<>> ELSE MMulSAt(a, d, 1, 0)

MShift(a) == IF a = <<>> THEN a ELSE <<0>> \o a

RECURSIVE MMulAt(_, _, _)
MMulAt(a, b, j) ==
    IF j > Len(b) THEN <<>>
    ELSE MAdd(MMulS(a, b[j]), MShift(MMulAt(a, b, j + 1)))

MMul(a, b) == IF Len(a) >= Len(b) THEN MMulAt(a, b, 1) ELSE MMulAt(b, a, 1)

\* the largest d in lo..hi with d*b <= cur, given lo*b <= cur
RECURSIVE MQDigit(_, _, _, _)
MQDigit(cur, b, lo, hi) ==
    IF lo >= hi THEN lo
    ELSE IF MCmp(MMulS(b, (lo + hi + 1) \div 2), cur) <= 0
    THEN MQDigit(cur, b, (lo + hi + 1) \div 2, hi)
    ELSE MQDigit(cur, b, lo, (lo + hi + 1) \div 2 - 1)

\* floor(c * 10^k / b) for machine integers c >= 0 and 0 < b < 10^8, digit by
\* digit: q is the quotient and r the remainder so far
RECURSIVE MEstimate(_, _, _, _)
MEstimate(q, r, b, k) ==
    IF k = 0 THEN q
    ELSE MEstimate(q * 10 + (r * 10) \div b, (r * 10) % b, b, k - 1)

\* the limbs n+1 and n of m as one machine integer
MTop(m, n) == Limb(m, n + 1) * Base + Limb(m, n)

Least(x, y) == IF x < y THEN x ELSE y

\* the quotient limb of cur by b, searched in the four candidates below hi
MQBracket(cur, b, hi) == MQDigit(cur, b, IF hi < 3 THEN 0 ELSE hi - 3, hi)

\* one step of long division: the quotient limb of cur by b # 0, cur < b * Base,
\* bracketed from the leading limbs of cur and of b, then settled by MQDigit
MQLimb(cur, b) ==
    IF Len(b) = 1 THEN Least(MTop(cur, 1) \div b[1], Base - 1)
    ELSE MQBracket(cur, b,
            Least(MEstimate(MTop(cur, Len(b)) \div MTop(b, Len(b) - 1),
                            MTop(cur, Len(b)) % MTop(b, Len(b) - 1),
                            MTop(b, Len(b) - 1), 4) + 1,
                  Base - 1))

\* long division of a by b # 0 from the leading limb i down, with the quotient q
\* and the remainder r of the limbs above i; cur is r with the limb i brought
\* down and d the quotient limb of cur
RECURSIVE MDivFrom(_, _, _, _, _)
RECURSIVE MDivCur(_, _, _, _, _)
RECURSIVE MDivStep(_, _, _, _, _, _)
MDivStep(a, b, i, q, cur, d) ==
    MDivFrom(a, b, i - 1, IF q = <<>> /\ d = 0 THEN q ELSE <<d>> \o q,
             MSub(cur, MMulS(b, d)))

MDivCur(a, b, i, q, cur) == MDivStep(a, b, i, q, cur, MQLimb(cur, b))

MDivFrom(a, b, i, q, r) ==
    IF i = 0 THEN q ELSE MDivCur(a, b, i, q, MNorm(<<a[i]>> \o r))

MDiv(a, b) == MDivFrom(a, b, Len(a), <<>>, <<>>)

RECURSIVE MOfNat(_)
MOfNat(n) == IF n = 0 THEN <<>> ELSE <<n % Base>> \o MOfNat(n \div Base)

\* the least s >= lo with s * s >= t, for a machine integer t < 10^8
RECURSIVE ISqrtUp(_, _, _)
ISqrtUp(t, lo, hi) ==
    IF lo >= hi THEN lo
    ELSE IF ((lo + hi) \div 2) * ((lo + hi) \div 2) >= t
    THEN ISqrtUp(t, lo, (lo + hi) \div 2)
    ELSE ISqrtUp(t, (lo + hi) \div 2 + 1, hi)

\* integer square root by Newton's iteration from a start x >= sqrt(n); y is
\* the iterate after x
RECURSIVE MSqrtFrom(_, _)
RECURSIVE MSqrtNext(_, _, _)
MSqrtNext(n, x, y) == IF MCmp(y, x) >= 0 THEN x ELSE MSqrtFrom(n, y)

MSqrtFrom(n, x) == MSqrtNext(n, x, MDiv(MAdd(x, MDiv(n, x)), <<2>>))

\* floor(sqrt(n)); the start is taken from the leading one or two limbs of n
MSqrt(n) ==
    IF n = <<>> THEN n
    ELSE MSqrtFrom(n,
            [i \in 1..((Len(n) - 1) \div 2) |-> 0]
            \o MOfNat(ISqrtUp((IF Len(n) % 2 = 0 THEN MTop(n, Len(n) - 1)
                                                 ELSE n[Len(n)]) + 1,
                              1, Base)))

----------------------------------------------------------------------------
(* Signed fixed-point numbers, 10^12 units to 1.0 (three limbs).           *)

Mk(neg, mag) == [neg |-> neg /\ mag # <<>>, mag |-> mag]

Zero == [neg |-> FALSE, mag |-> <<>>]

One == [neg |-> FALSE, mag |-> <<0, 0, 0, 1>>]

Abs(n) == IF n < 0 THEN -n ELSE n

FromInt(n) == Mk(n < 0, IF n = 0 THEN <<>> ELSE <<0, 0, 0>> \o MOfNat(Abs(n)))

\* the decimal n/d for d a power of ten up to 10^8, e.g. Dec(14, 10) is 1.4
Dec(n, d) ==
    Mk(n < 0,
       IF n = 0 THEN <<>>
       ELSE IF d <= 10^4 THEN <<0, 0>> \o MOfNat(Abs(n) * (10^4 \div d))
       ELSE <<0>> \o MOfNat(Abs(n) * (10^8 \div d)))

FNeg(a) == Mk(~a.neg, a.mag)

FAbs(a) == Mk(FALSE, a.mag)

\* a + b for a and b of opposite signs, c being MCmp(a.mag, b.mag)
FAddOpposite(a, b, c) ==
    IF c = 0 THEN Zero
    ELSE IF c > 0 THEN Mk(a.neg, MSub(a.mag, b.mag))
    ELSE Mk(b.neg, MSub(b.mag, a.mag))

FAdd(a, b) ==
    IF a.neg = b.neg THEN Mk(a.neg, MAdd(a.mag, b.mag))
    ELSE FAddOpposite(a, b, MCmp(a.mag, b.mag))

FSub(a, b) == FAdd(a, FNeg(b))

\* the product p of two magnitudes, truncated to twelve fractional digits
FTruncate(neg, p) == Mk(neg, IF Len(p) <= 3 THEN <<>> ELSE SubSeq(p, 4, Len(p)))

FMul(a, b) == FTruncate(a.neg # b.neg, MMul(a.mag, b.mag))

\* a / b for b # 0
FDiv(a, b) ==
    IF a.mag = <<>> THEN Zero
    ELSE Mk(a.neg # b.neg, MDiv(<<0, 0, 0>> \o a.mag, b.mag))

FSqrt(a) == Mk(FALSE, MSqrt(IF a.mag = <<>> THEN <<>> ELSE <<0, 0, 0>> \o a.mag))

\* -1, 0, 1 as a < b, a = b, a > b
FCmp(a, b) ==
    IF a.neg /\ ~b.neg THEN -1
    ELSE IF ~a.neg /\ b.neg THEN 1
    ELSE IF a.neg THEN MCmp(b.mag, a.mag) ELSE MCmp(a.mag, b.mag)

FLt(a, b) == FCmp(a, b) < 0
FLe(a, b) == FCmp(a, b) <= 0
FGt(a, b) == FCmp(a, b) > 0
FGe(a, b) == FCmp(a, b) >= 0

\* x^n for a natural n
RECURSIVE IntPow(_, _)
IntPow(x, n) == IF n = 0 THEN One ELSE FMul(x, IntPow(x, n - 1))

\* p or 1/p
Reciprocal(neg, p) == IF neg THEN FDiv(One, p) ELSE p

\* x ** e for x > 0 and an exponent e that is a multiple of one half, which is
\* what gamma/(gamma-1) and (gamma+1)/(2*(gamma-1)) are for the modelled gamma
Pow(x, e) ==
    Reciprocal(e.neg,
               IF Limb(e.mag, 3) # 0
               THEN FMul(IntPow(x, Limb(e.mag, 4)), FSqrt(x))
               ELSE IntPow(x, Limb(e.mag, 4)))

\* m^q for a natural q
RECURSIVE MPow(_, _)
MPow(m, q) == IF q = 0 THEN <<1>> ELSE MMul(m, MPow(m, q - 1))

\* the largest r in lo..hi with r^q <= n, given lo^q <= n; mid is the upper
\* midpoint of lo..hi
RECURSIVE MRootBetween(_, _, _, _)
RECURSIVE MRootMid(_, _, _, _, _)
MRootMid(n, q, lo, hi, mid) ==
    IF MCmp(MPow(mid, q), n) <= 0 THEN MRootBetween(n, q, mid, hi)
    ELSE MRootBetween(n, q, lo, MSub(mid, <<1>>))

MRootBetween(n, q, lo, hi) ==
    IF MCmp(lo, hi) >= 0 THEN lo
    ELSE MRootMid(n, q, lo, hi, MDiv(MAdd(MAdd(lo, hi), <<1>>), <<2>>))

\* x ** (p/q) for x >= 0 and naturals 0 < p <= q, truncated
PowRational(x, p, q) ==
    IF x.mag = <<>> THEN Zero
    ELSE Mk(FALSE, MRootBetween([i \in 1..(3 * (q - p)) |-> 0] \o MPow(x.mag, p),
                                q, <<>>, MAdd(x.mag, One.mag)))

\* the fifth root of a > 0 by Newton's iteration r <- (4r + a/r^4)/5 from 1,
\* 2 or a power of ten above the root, until the iterate stops decreasing
RECURSIVE FifthRootFrom(_, _)
FifthRootStep(a, r, next) == IF FGe(next, r) THEN r ELSE FifthRootFrom(a, next)

FifthRootFrom(a, r) ==
    FifthRootStep(a, r, FDiv(FAdd(FMul(FromInt(4), r), FDiv(a, IntPow(r, 4))),
                             FromInt(5)))

FifthRoot(a) ==
    IF a = Zero THEN Zero
    ELSE IF FLe(a, One) THEN FifthRootFrom(a, One)
    ELSE IF FLe(a, FromInt(32)) THEN FifthRootFrom(a, FromInt(2))
    ELSE FifthRootFrom(a, FromInt(10 ^ ((4 * Len(a.mag) - 8) \div 5)))

\* the integer part of a >= 0, below Base
Floor(a) == Limb(a.mag, 4)

\* math.pi to twelve digits
pi == Mk(FALSE, <<3589, 9265, 1415, 3>>)

\* np.radians
radians(deg) == FMul(deg, FDiv(pi, FromInt(180)))

\* the Taylor series of the cosine, summed until a term truncates to zero:
\* term is the n-th term z^(2n)/(2n)! with its sign, z2 is z*z
RECURSIVE CosFrom(_, _, _, _)
CosFrom(z2, term, n, acc) ==
    IF term = Zero THEN acc
    ELSE CosFrom(z2,
                 FNeg(FDiv(FMul(term, z2), FromInt((2 * n + 1) * (2 * n + 2)))),
                 n + 1, FAdd(acc, term))

\* np.cos for |z| below Base radians
FCos(z) == CosFrom(FMul(z, z), One, 0, Zero)

\* the Taylor series of the sine: term is z^(2n+1)/(2n+1)! with its sign
RECURSIVE SinFrom(_, _, _, _)
SinFrom(z2, term, n, acc) ==
    IF term = Zero THEN acc
    ELSE SinFrom(z2,
                 FNeg(FDiv(FMul(term, z2), FromInt((2 * n + 2) * (2 * n + 3)))),
                 n + 1, FAdd(acc, term))

FSin(z) == SinFrom(FMul(z, z), z, 0, Zero)

\* np.tan away from the poles
FTan(z) == FDiv(FSin(z), FCos(z))

FSquare(a) == FMul(a, a)

----------------------------------------------------------------------------
(* flow_regimes.py: FlowRegime                                             *)

\* GasMixture.get_mixture_properties: avg_gamma = 1.4
gamma == Dec(14, 10)

tol == Dec(1, 10^6)

max_iter == 100

Raised(e) == [status |-> e]

Returned(v) == [status |-> "ok", value |-> v]

\* the subexpressions of the area-Mach relation that depend on gamma alone
two_over_gp1 == FDiv(FromInt(2), FAdd(gamma, One))
gm1_over_two == FDiv(FSub(gamma, One), FromInt(2))
area_exponent == FDiv(FAdd(gamma, One), FMul(FromInt(2), FSub(gamma, One)))

calculate_area_ratio(mach) ==
    FMul(FDiv(One, mach),
         Pow(FMul(two_over_gp1, FAdd(One, FMul(gm1_over_two, FMul(mach, mach)))),
             area_exponent))

\* the closure mach_equation of calculate_mach_from_area; m # 0
mach_equation(m, area_ratio) == FSub(calculate_area_ratio(m), area_ratio)

\* the step of the numerical derivative in _solve_newton
h == Dec(1, 10^6)

Running(x, iterations) == [status |-> "running", x |-> x, iterations |-> iterations]

Ended(status, iterations) == [status |-> status, iterations |-> iterations]

Converged(x, iterations) == [status |-> "ok", value |-> x, iterations |-> iterations]

\* x = x - fx/dfx; fx/dfx at dfx = 0 raises ZeroDivisionError
newton_update(st, fx, dfx) ==
    IF dfx = Zero THEN Ended("ZeroDivisionError", st.iterations)
    ELSE Running(FSub(st.x, FDiv(fx, dfx)), st.iterations + 1)

\* the body of the loop of _solve_newton once fx = f(x) is known; 1/m at
\* m = x + h = 0 raises ZeroDivisionError
newton_body(area_ratio, st, fx) ==
    IF FLt(FAbs(fx), tol) THEN Converged(st.x, st.iterations)
    ELSE IF FAdd(st.x, h) = Zero THEN Ended("ZeroDivisionError", st.iterations)
    ELSE newton_update(st, fx,
            FDiv(FSub(mach_equation(FAdd(st.x, h), area_ratio), fx), h))

\* one pass of the loop of _solve_newton over mach_equation: st holds the
\* iterate x and the number of passes made; a pass that returns or raises
\* ends the loop.  1/m at m = 0 raises ZeroDivisionError.
newton_pass(area_ratio, st) ==
    IF st.status # "running" THEN st
    ELSE IF st.x = Zero THEN Ended("ZeroDivisionError", st.iterations)
    ELSE newton_body(area_ratio, st, mach_equation(st.x, area_ratio))

\* n >= 1 passes of the loop in a row: the first half, and the second half
\* unless the loop has ended
RECURSIVE newton_passes(_, _, _)
RECURSIVE newton_rest(_, _, _)
newton_rest(area_ratio, half, n) ==
    IF half.status # "running" THEN half ELSE newton_passes(area_ratio, half, n)

newton_passes(area_ratio, st, n) ==
    IF n = 1 THEN newton_pass(area_ratio, st)
    ELSE newton_rest(area_ratio, newton_passes(area_ratio, st, n \div 2),
                     n - n \div 2)

\* the end of _solve_newton: the loop ran out of passes
newton_exhausted(st) ==
    IF st.status = "running" THEN Ended("ValueError", st.iterations) ELSE st

\* _solve_newton with one pass more than max_iter
solve_newton_one_more(area_ratio, x0) ==
    newton_exhausted(newton_passes(area_ratio, Running(x0, 0), max_iter + 1))

\* _solve_newton: max_iter passes, then ValueError
solve_newton(area_ratio, x0) ==
    newton_exhausted(newton_passes(area_ratio, Running(x0, 0), max_iter))

\* the area ratios the calls are drawn from: below one (no root), the throat,
\* and supersonic design points
AreaRatios == {Dec(5, 10), One, FromInt(2), FromInt(50)}

\* m0 of calculate_mach_from_area
initial_guess(is_subsonic) == IF is_subsonic THEN Dec(5, 10) ELSE FromInt(2)

\* calculate_mach_from_area on the drawn area ratios, each solved once
mach_solutions ==
    [area_ratio \in AreaRatios, is_subsonic \in BOOLEAN |->
        solve_newton(area_ratio, initial_guess(is_subsonic))]

calculate_mach_from_area(area_ratio, is_subsonic) ==
    IF area_ratio \in AreaRatios THEN mach_solutions[area_ratio, is_subsonic]
    ELSE solve_newton(area_ratio, initial_guess(is_subsonic))

critical_pressure_ratio ==
    Pow(FDiv(FromInt(2), FAdd(gamma, One)), FDiv(gamma, FSub(gamma, One)))

\* design_pressure_ratio for a design_mach that was returned
design_pressure_ratio(design_mach) ==
    Pow(FAdd(One, FMul(gm1_over_two, FMul(design_mach, design_mach))),
        FNeg(FDiv(gamma, FSub(gamma, One))))

\* determine_flow_regime with the design threshold counted as over-expanded
regime_of_design_inclusive(inlet_pressure, back_pressure, design_mach) ==
    IF design_mach.status # "ok" THEN Raised(design_mach.status)
    ELSE IF FGt(back_pressure, inlet_pressure) THEN Returned("subsonic")
    ELSE IF FGt(back_pressure, FMul(inlet_pressure, critical_pressure_ratio))
    THEN Returned("choked")
    ELSE IF FGe(back_pressure,
                FMul(inlet_pressure, design_pressure_ratio(design_mach.value)))
    THEN Returned("over-expanded")
    ELSE Returned("under-expanded")

\* the comparisons of determine_flow_regime once design_mach is known
regime_of(inlet_pressure, back_pressure, design_mach) ==
    IF design_mach.status # "ok" THEN Raised(design_mach.status)
    ELSE IF FGt(back_pressure, inlet_pressure) THEN Returned("subsonic")
    ELSE IF FGt(back_pressure, FMul(inlet_pressure, critical_pressure_ratio))
    THEN Returned("choked")
    ELSE IF FGt(back_pressure,
                FMul(inlet_pressure, design_pressure_ratio(design_mach.value)))
    THEN Returned("over-expanded")
    ELSE Returned("under-expanded")

determine_flow_regime(inlet_pressure, back_pressure, area_ratio) ==
    regime_of(inlet_pressure, back_pressure,
              calculate_mach_from_area(area_ratio, FALSE))

\* the FlowState of _calculate_flow_state, base being 1 + (gamma-1)/2 * mach**2.
\* The density is not carried.  branch records how mach was obtained: by the
\* subsonic or the supersonic request of calculate_mach_from_area, or by
\* neither (a literal, a shock relation).
flow_state_of(mach, reference_pressure, reference_temp, area_ratio, flow_regime, branch, base) ==
    [mach |-> mach,
     pressure |-> FMul(reference_pressure,
                       Pow(base, FNeg(FDiv(gamma, FSub(gamma, One))))),
     temperature |-> FMul(reference_temp, FDiv(One, base)),
     area_ratio |-> area_ratio,
     is_shock |-> FALSE,
     flow_regime |-> flow_regime,
     branch |-> branch]

\* _calculate_flow_state
calculate_flow_state(mach, reference_pressure, reference_temp, area_ratio, flow_regime, branch) ==
    flow_state_of(mach, reference_pressure, reference_temp, area_ratio, flow_regime,
                  branch, FAdd(One, FMul(gm1_over_two, FSquare(mach))))

\* the branch a request of calculate_mach_from_area asks for
branch_of(is_subsonic) == IF is_subsonic THEN "subsonic" ELSE "supersonic"

\* one state at the Mach number exit_mach that calculate_mach_from_area gave
\* for the request is_subsonic, or what that call raised
single_state(exit_mach, inlet_pressure, inlet_temp, area_ratio, flow_regime, is_subsonic) ==
    IF exit_mach.status # "ok" THEN Raised(exit_mach.status)
    ELSE Returned(<<calculate_flow_state(exit_mach.value, inlet_pressure, inlet_temp,
                                         area_ratio, flow_regime,
                                         branch_of(is_subsonic))>>)

\* the choked branch of ConvergingDivergingNozzle.calculate_flow after the
\* throat state: the subsonic exit state from the throat conditions
choked_states(throat_state, exit_mach, area_ratio, flow_regime) ==
    IF exit_mach.status # "ok" THEN Raised(exit_mach.status)
    ELSE Returned(<<throat_state,
                    calculate_flow_state(exit_mach.value, throat_state.pressure,
                                         throat_state.temperature, area_ratio,
                                         flow_regime, "subsonic")>>)

\* the 1.5 of _find_shock_location
shock_area_ratio == Dec(15, 10)

\* the comparison of _find_shock_location once design_mach is known
shock_location_of(pressure_ratio, design_mach) ==
    IF design_mach.status # "ok" THEN Raised(design_mach.status)
    ELSE IF FGt(pressure_ratio, design_pressure_ratio(design_mach.value))
    THEN Returned(shock_area_ratio)
    ELSE Returned([class |-> "None"])

\* _find_shock_location
find_shock_location(area_ratio, pressure_ratio) ==
    shock_location_of(pressure_ratio, calculate_mach_from_area(area_ratio, FALSE))

\* 2*gamma*M**2 - (gamma-1)
shock_strength(m) ==
    FSub(FMul(FMul(FromInt(2), gamma), FSquare(m)), FSub(gamma, One))

\* the post-shock FlowState of _calculate_shock_flow
post_shock_state_of(pre_shock_state, m, shock_location, flow_regime) ==
    [mach |-> FSqrt(FDiv(FAdd(One, FMul(gm1_over_two, FSquare(m))),
                         FSub(FMul(gamma, FSquare(m)), gm1_over_two))),
     pressure |-> FMul(pre_shock_state.pressure,
                       FDiv(shock_strength(m), FAdd(gamma, One))),
     temperature |->
        FMul(pre_shock_state.temperature,
             FDiv(FMul(shock_strength(m),
                       FAdd(FMul(FSub(gamma, One), FSquare(m)), FromInt(2))),
                  FMul(FSquare(FAdd(gamma, One)), FSquare(m)))),
     area_ratio |-> shock_location,
     is_shock |-> TRUE,
     flow_regime |-> flow_regime,
     branch |-> "none"]

\* the exit state of _calculate_shock_flow, from the post-shock conditions
shock_states(pre_shock_state, post_shock_state, exit_mach, exit_area_ratio, flow_regime) ==
    IF exit_mach.status # "ok" THEN Raised(exit_mach.status)
    ELSE Returned(<<pre_shock_state, post_shock_state,
                    calculate_flow_state(exit_mach.value, post_shock_state.pressure,
                                         post_shock_state.temperature,
                                         exit_area_ratio, flow_regime, "subsonic")>>)

\* _calculate_shock_flow after the pre-shock state
shock_flow_behind(pre_shock_state, pre_shock_mach, area_ratio, shock_location, flow_regime) ==
    shock_states(pre_shock_state,
                 post_shock_state_of(pre_shock_state, pre_shock_mach, shock_location,
                                     flow_regime),
                 calculate_mach_from_area(FDiv(area_ratio, shock_location), TRUE),
                 FDiv(area_ratio, shock_location), flow_regime)

\* _calculate_shock_flow once pre_shock_mach was called
shock_flow_at(pre_shock_mach, inlet_pressure, inlet_temp, area_ratio, shock_location, flow_regime) ==
    IF pre_shock_mach.status # "ok" THEN Raised(pre_shock_mach.status)
    ELSE shock_flow_behind(
            calculate_flow_state(pre_shock_mach.value, inlet_pressure, inlet_temp,
                                 shock_location, flow_regime, "supersonic"),
            pre_shock_mach.value, area_ratio, shock_location, flow_regime)

\* _calculate_shock_flow
calculate_shock_flow(inlet_pressure, inlet_temp, area_ratio, shock_location, flow_regime) ==
    shock_flow_at(calculate_mach_from_area(shock_location, FALSE), inlet_pressure,
                  inlet_temp, area_ratio, shock_location, flow_regime)

\* the over-expanded branch of calculate_flow once shock_location was called
over_expanded_states(shock_location, inlet_pressure, inlet_temp, area_ratio, flow_regime) ==
    IF shock_location.status # "ok" THEN Raised(shock_location.status)
    ELSE IF shock_location.value # [class |-> "None"]
    THEN calculate_shock_flow(inlet_pressure, inlet_temp, area_ratio,
                              shock_location.value, flow_regime)
    ELSE single_state(calculate_mach_from_area(area_ratio, TRUE), inlet_pressure,
                      inlet_temp, area_ratio, flow_regime, TRUE)

\* ConvergingDivergingNozzle.calculate_flow once flow_regime was called
diverging_flow_of(flow_regime, inlet_pressure, back_pressure, inlet_temp, area_ratio) ==
    IF flow_regime.status # "ok" THEN Raised(flow_regime.status)
    ELSE IF flow_regime.value = "subsonic"
    THEN single_state(calculate_mach_from_area(area_ratio, TRUE), inlet_pressure,
                      inlet_temp, area_ratio, flow_regime.value, TRUE)
    ELSE IF flow_regime.value = "choked"
    THEN choked_states(calculate_flow_state(One, inlet_pressure, inlet_temp, One,
                                            flow_regime.value, "none"),
                       calculate_mach_from_area(area_ratio, TRUE), area_ratio,
                       flow_regime.value)
    ELSE IF flow_regime.value = "over-expanded"
    THEN over_expanded_states(
            find_shock_location(area_ratio, FDiv(back_pressure, inlet_pressure)),
            inlet_pressure, inlet_temp, area_ratio, flow_regime.value)
    ELSE single_state(calculate_mach_from_area(area_ratio, FALSE), inlet_pressure,
                      inlet_temp, area_ratio, flow_regime.value, FALSE)

\* ConvergingDivergingNozzle.calculate_flow, for inlet_pressure > 0
diverging_calculate_flow(inlet_pressure, back_pressure, inlet_temp, area_ratio) ==
    diverging_flow_of(determine_flow_regime(inlet_pressure, back_pressure, area_ratio),
                      inlet_pressure, back_pressure, inlet_temp, area_ratio)

\* the FlowState of ConvergingNozzle.calculate_flow, base being
\* 1 + (gamma-1)/2 * exit_mach**2
converging_state_of(exit_mach, exit_pressure, inlet_temp, flow_regime, branch, base) ==
    [mach |-> exit_mach,
     pressure |-> exit_pressure,
     temperature |-> FMul(inlet_temp, FDiv(One, base)),
     area_ratio |-> One,
     is_shock |-> FALSE,
     flow_regime |-> flow_regime,
     branch |-> branch]

\* the exit state of ConvergingNozzle.calculate_flow
converging_state(exit_mach, exit_pressure, inlet_temp, flow_regime, branch) ==
    converging_state_of(exit_mach, exit_pressure, inlet_temp, flow_regime, branch,
                        FAdd(One, FMul(gm1_over_two, FSquare(exit_mach))))

\* the subsonic branch of ConvergingNozzle.calculate_flow once exit_mach was
\* called
converging_subsonic(exit_mach, back_pressure, inlet_temp, flow_regime) ==
    IF exit_mach.status # "ok" THEN Raised(exit_mach.status)
    ELSE Returned(<<converging_state(exit_mach.value, back_pressure, inlet_temp,
                                     flow_regime, "subsonic")>>)

\* ConvergingNozzle.calculate_flow once flow_regime was called
converging_flow_of(flow_regime, inlet_pressure, back_pressure, inlet_temp) ==
    IF flow_regime.status # "ok" THEN Raised(flow_regime.status)
    ELSE IF flow_regime.value = "subsonic"
    THEN converging_subsonic(calculate_mach_from_area(One, TRUE), back_pressure,
                             inlet_temp, flow_regime.value)
    ELSE Returned(<<converging_state(One,
                                     FMul(inlet_pressure, critical_pressure_ratio),
                                     inlet_temp, flow_regime.value, "none")>>)

\* ConvergingNozzle.calculate_flow
converging_calculate_flow(inlet_pressure, back_pressure, inlet_temp) ==
    converging_flow_of(determine_flow_regime(inlet_pressure, back_pressure, One),
                       inlet_pressure, back_pressure, inlet_temp)

----------------------------------------------------------------------------
(* engineering_calculations.py: NozzleGeometryCalculator                   *)

range_iterations == 10

\* the literal 1e-6 of calculate_mach_from_area: tolerance and derivative step
one_millionth == Dec(1, 10^6)

\* m = m - f/df
engineering_update(st, f, df) ==
    IF df = Zero THEN Ended("ZeroDivisionError", st.iterations)
    ELSE Running(FSub(st.x, FDiv(f, df)), st.iterations + 1)

\* the body of the loop of calculate_mach_from_area once f is known
engineering_body(area_ratio, st, f) ==
    IF FLt(FAbs(f), one_millionth) THEN Converged(st.x, st.iterations)
    ELSE IF FAdd(st.x, one_millionth) = Zero
    THEN Ended("ZeroDivisionError", st.iterations)
    ELSE engineering_update(st, f,
            FDiv(FSub(mach_equation(FAdd(st.x, one_millionth), area_ratio), f),
                 one_millionth))

\* one pass of the loop of calculate_mach_from_area; a pass that breaks ends
\* the loop with the iterate it tested
engineering_pass(area_ratio, st) ==
    IF st.status # "running" THEN st
    ELSE IF st.x = Zero THEN Ended("ZeroDivisionError", st.iterations)
    ELSE engineering_body(area_ratio, st, mach_equation(st.x, area_ratio))

RECURSIVE engineering_passes(_, _, _)
RECURSIVE engineering_rest(_, _, _)
engineering_rest(area_ratio, half, n) ==
    IF half.status # "running" THEN half
    ELSE engineering_passes(area_ratio, half, n)

engineering_passes(area_ratio, st, n) ==
    IF n = 1 THEN engineering_pass(area_ratio, st)
    ELSE engineering_rest(area_ratio,
                          engineering_passes(area_ratio, st, n \div 2),
                          n - n \div 2)

\* the return of calculate_mach_from_area: m, whether or not a pass broke the
\* loop
engineering_return(st) ==
    IF st.status = "running" THEN Converged(st.x, st.iterations) ELSE st

\* the initial guess m = 2.0 of the engineering calculate_mach_from_area
engineering_initial_guess == FromInt(2)

\* calculate_mach_from_area of the engineering calculator: m = 2.0, ten passes
engineering_calculate_mach_from_area(area_ratio) ==
    engineering_return(engineering_passes(area_ratio,
                                          Running(engineering_initial_guess, 0),
                                          range_iterations))

N_SEGMENTS == 10

THRROAT_SEGMENT_RATIO == Dec(15, 100)

n_points == 100

\* the pressure and the temperature of calculate_flow_properties, base being
\* 1 + (gamma-1)/2 * mach**2
flow_properties_of(mach, chamber_pressure, chamber_temperature, base) ==
    [pressure |-> FMul(chamber_pressure,
                       Pow(base, FNeg(FDiv(gamma, FSub(gamma, One))))),
     temperature |-> FMul(chamber_temperature, FDiv(One, base)),
     mach |-> mach]

\* calculate_flow_properties: pressure and temperature at a Mach number
calculate_flow_properties(mach, chamber_pressure, chamber_temperature) ==
    flow_properties_of(mach, chamber_pressure, chamber_temperature,
                       FAdd(One, FMul(gm1_over_two, FMul(mach, mach))))

\* x = np.linspace(0, length, n_points): x[k] for k in 0..n_points-1
linspace(length, k) ==
    IF k = n_points - 1 THEN length
    ELSE FMul(FromInt(k), FDiv(length, FromInt(n_points - 1)))

\* the throat arc of calculate_rao_contour, of radius R1 about x = xt
rao_throat(throat_radius, R1, dx) ==
    FSub(FAdd(throat_radius, R1), FSqrt(FSub(FSquare(R1), FSquare(dx))))

\* the initial expansion of calculate_rao_contour at the fraction t
rao_expansion(throat_radius, R2, theta_n, t) ==
    FAdd(throat_radius, FMul(R2, FSub(One, FCos(FMul(theta_n, t)))))

\* the final expansion of calculate_rao_contour at the fraction t
rao_final(throat_radius, exit_radius, theta_e, t) ==
    FSub(exit_radius,
         FMul(FMul(FSub(exit_radius, throat_radius), FSquare(FSub(One, t))),
              FCos(theta_e)))

\* the branches of the loop of calculate_rao_contour, xt being the end of the
\* throat section and xf the end of the initial expansion.
\* The radicand of the throat arc stays positive for the drawn geometries.
rao_branch(throat_radius, exit_radius, length, divergence_angle, xi, xt, xf) ==
    IF FLt(xi, xt)
    THEN rao_throat(throat_radius, FMul(throat_radius, Dec(15, 10)), FSub(xi, xt))
    ELSE IF FLt(xi, xf)
    THEN rao_expansion(throat_radius, FMul(throat_radius, Dec(382, 1000)),
                       radians(divergence_angle),
                       FDiv(FSub(xi, xt), FMul(length, Dec(45, 100))))
    ELSE rao_final(throat_radius, exit_radius, radians(Dec(75, 10)),
                   FDiv(FSub(xi, xf), FMul(length, Dec(4, 10))))

\* the body of the loop of calculate_rao_contour: y at the station xi
rao_radius(throat_radius, exit_radius, length, divergence_angle, xi) ==
    rao_branch(throat_radius, exit_radius, length, divergence_angle, xi,
               FMul(length, THRROAT_SEGMENT_RATIO), FMul(length, Dec(6, 10)))

\* the point of the contour at the station xi
rao_point(throat_radius, exit_radius, length, divergence_angle, xi) ==
    [x |-> xi,
     y |-> rao_radius(throat_radius, exit_radius, length, divergence_angle, xi)]

\* calculate_rao_contour: the points (x[k], y[k]), k in 0..n_points-1
calculate_rao_contour(throat_radius, exit_radius, length, divergence_angle) ==
    [k \in 0..(n_points - 1) |->
        rao_point(throat_radius, exit_radius, length, divergence_angle,
                  linspace(length, k))]

\* the search of np.interp over ascending xp: the largest k in lo..hi with
\* xp[k] <= x, given xp[lo] <= x
RECURSIVE interp_index(_, _, _, _)
interp_index(x, points, lo, hi) ==
    IF lo >= hi THEN lo
    ELSE IF FLe(points[(lo + hi + 1) \div 2].x, x)
    THEN interp_index(x, points, (lo + hi + 1) \div 2, hi)
    ELSE interp_index(x, points, lo, (lo + hi + 1) \div 2 - 1)

\* the chord of np.interp through the points p and q, at x
interp_chord(x, p, q) ==
    FAdd(FMul(FDiv(FSub(q.y, p.y), FSub(q.x, p.x)), FSub(x, p.x)), p.y)

\* np.interp at x, j being the index of the point at or left of x
interp_at(x, points, j) ==
    IF j = n_points - 1 \/ points[j].x = x THEN points[j].y
    ELSE interp_chord(x, points[j], points[j + 1])

\* np.interp(x, xp, fp) over the contour points: fp[-1] to the right of xp[-1],
\* fp[0] to the left of xp[0], the chord through the two neighbours otherwise
interp(x, points) ==
    IF FGt(x, points[n_points - 1].x) THEN points[n_points - 1].y
    ELSE IF FLt(x, points[0].x) THEN points[0].y
    ELSE interp_at(x, points, interp_index(x, points, 0, n_points - 1))

\* the throat segment of calculate_segments
throat_segment(throat_radius, length, chamber_pressure, chamber_temperature) ==
    [start_x |-> Zero,
     end_x |-> FMul(length, THRROAT_SEGMENT_RATIO),
     start_radius |-> FMul(throat_radius, Dec(8, 10)),
     end_radius |-> throat_radius,
     length |-> FMul(length, THRROAT_SEGMENT_RATIO),
     area_ratio |-> One,
     mach_number |-> One,
     pressure |-> FMul(chamber_pressure, critical_pressure_ratio),
     temperature |-> FMul(chamber_temperature, two_over_gp1)]

\* segment_length of calculate_segments
segment_length(length) ==
    FDiv(FSub(length, FMul(length, THRROAT_SEGMENT_RATIO)),
         FromInt(N_SEGMENTS - 1))

\* throat_length + k * segment_length: start_x for k = i-1, end_x for k = i
segment_x(length, k) ==
    FAdd(FMul(length, THRROAT_SEGMENT_RATIO),
         FMul(FromInt(k), segment_length(length)))

\* the NozzleSegment of the loop with start_x = throat_length + i * segment_length
segment_record_shifted(i, length, start_radius, end_radius, area_ratio, flow_props) ==
    [start_x |-> segment_x(length, i),
     end_x |-> segment_x(length, i),
     start_radius |-> start_radius,
     end_radius |-> end_radius,
     length |-> segment_length(length),
     area_ratio |-> area_ratio,
     mach_number |-> flow_props.mach,
     pressure |-> flow_props.pressure,
     temperature |-> flow_props.temperature]

\* the NozzleSegment of the loop of calculate_segments.  The segment carries
\* the fields the geometry and the flow give it; angle, wall_temperature and
\* heat_flux are not carried.
segment_record(i, length, start_radius, end_radius, area_ratio, flow_props) ==
    [start_x |-> segment_x(length, i - 1),
     end_x |-> segment_x(length, i),
     start_radius |-> start_radius,
     end_radius |-> end_radius,
     length |-> segment_length(length),
     area_ratio |-> area_ratio,
     mach_number |-> flow_props.mach,
     pressure |-> flow_props.pressure,
     temperature |-> flow_props.temperature]

\* mach and flow_props of the loop of calculate_segments
segment_flow(i, length, start_radius, end_radius, area_ratio, chamber_pressure, chamber_temperature) ==
    segment_record(i, length, start_radius, end_radius, area_ratio,
        calculate_flow_properties(
            engineering_calculate_mach_from_area(area_ratio).value,
            chamber_pressure, chamber_temperature))

\* area_ratio = (end_radius/throat_radius)**2
segment_area(i, throat_radius, length, start_radius, end_radius, chamber_pressure, chamber_temperature) ==
    segment_flow(i, length, start_radius, end_radius,
                 FSquare(FDiv(end_radius, throat_radius)),
                 chamber_pressure, chamber_temperature)

\* start_radius and end_radius of the loop of calculate_segments
segment_radii(i, throat_radius, length, contour_points, chamber_pressure, chamber_temperature) ==
    segment_area(i, throat_radius, length,
                 interp(segment_x(length, i - 1), contour_points),
                 interp(segment_x(length, i), contour_points),
                 chamber_pressure, chamber_temperature)

\* the body of the loop of calculate_segments for i in 1..N_SEGMENTS-1
diverging_segment(i, throat_radius, exit_radius, length, divergence_angle, chamber_pressure, chamber_temperature) ==
    segment_radii(i, throat_radius, length,
                  calculate_rao_contour(throat_radius, exit_radius, length,
                                        divergence_angle),
                  chamber_pressure, chamber_temperature)

\* calculate_segments: the throat segment, then the diverging segments
calculate_segments(throat_radius, exit_radius, length, divergence_angle, chamber_pressure, chamber_temperature) ==
    Returned(<<throat_segment(throat_radius, length, chamber_pressure,
                              chamber_temperature)>>
             \o [i \in 1..(N_SEGMENTS - 1) |->
                   diverging_segment(i, throat_radius, exit_radius, length,
                                     divergence_angle, chamber_pressure,
                                     chamber_temperature)])

PRANDTL_NUMBER == Dec(7, 10)

WALL_THICKNESS == Dec(2, 1000)

\* the 1.5e-5 of calculate_heat_transfer
viscosity == Dec(15, 10^6)

\* avg_cp of GasMixture.get_mixture_properties
cp == FromInt(1000)

\* thermal conductivity and maximum temperature of DEFAULT_MATERIALS
DEFAULT_MATERIALS ==
    [copper |-> [thermal_conductivity |-> FromInt(400),
                 max_temperature |-> FromInt(1356)],
     inconel |-> [thermal_conductivity |-> Dec(114, 10),
                  max_temperature |-> FromInt(1473)],
     steel |-> [thermal_conductivity |-> Dec(162, 10),
                max_temperature |-> FromInt(1673)]]

\* recovery_temp of calculate_heat_transfer
recovery_temperature(segment) ==
    FMul(segment.temperature,
         FAdd(One, FMul(FDiv(FMul(FSqrt(PRANDTL_NUMBER), FSub(gamma, One)),
                             FromInt(2)),
                        FSquare(segment.mach_number))))

\* cp**0.8
cp_factor == IntPow(FifthRoot(cp), 4)

\* viscosity**-0.2
viscosity_factor == FDiv(One, FifthRoot(viscosity))

\* h of calculate_heat_transfer, for a positive Mach number and diameter D
heat_transfer_coefficient(mach_number, chamber_pressure_, D) ==
    FMul(FMul(FMul(FMul(FMul(Dec(26, 1000), IntPow(FifthRoot(mach_number), 4)),
                        cp_factor),
                   IntPow(FifthRoot(chamber_pressure_), 4)),
              FDiv(One, FifthRoot(D))),
         viscosity_factor)

\* wall temperature and heat flux of the HeatTransferResult
heat_transfer_result(recovery_temp, heat_flux, material) ==
    [wall_temperature |->
        FSub(recovery_temp,
             FMul(heat_flux, FDiv(WALL_THICKNESS, material.thermal_conductivity))),
     heat_flux |-> heat_flux]

\* calculate_heat_transfer once recovery_temp and h are known
heat_transfer_at(recovery_temp, h_, material) ==
    heat_transfer_result(recovery_temp,
                         FMul(h_, FSub(recovery_temp, material.max_temperature)),
                         material)

\* calculate_heat_transfer
calculate_heat_transfer(segment, chamber_pressure_, material) ==
    heat_transfer_at(recovery_temperature(segment),
                     heat_transfer_coefficient(segment.mach_number, chamber_pressure_,
                                               FMul(FromInt(2), segment.end_radius)),
                     material)

\* the segment with the wall temperature and heat flux assigned to it
with_heat_transfer(segment, heat_transfer) ==
    segment @@ heat_transfer

\* calculate_segments assigns each segment the wall temperature and heat flux
\* of calculate_heat_transfer before appending it
segments_with_heat_transfer(segments, chamber_pressure_, material) ==
    IF segments.status # "ok" THEN segments
    ELSE Returned([i \in 1..Len(segments.value) |->
                     with_heat_transfer(segments.value[i],
                                        calculate_heat_transfer(segments.value[i],
                                                                chamber_pressure_,
                                                                material))])

----------------------------------------------------------------------------
(* materials.py; a str is the sequence of its characters                   *)

ascii_uppercase ==
    <<"A", "B", "C", "D", "E", "F", "G", "H", "I", "J", "K", "L", "M",
      "N", "O", "P", "Q", "R", "S", "T", "U", "V", "W", "X", "Y", "Z">>

ascii_lowercase ==
    <<"a", "b", "c", "d", "e", "f", "g", "h", "i", "j", "k", "l", "m",
      "n", "o", "p", "q", "r", "s", "t", "u", "v", "w", "x", "y", "z">>

\* the lower-case letter of an upper-case letter; any other character is kept
lower_character(c) ==
    IF \E i \in 1..Len(ascii_uppercase) : ascii_uppercase[i] = c
    THEN ascii_lowercase[CHOOSE i \in 1..Len(ascii_uppercase) : ascii_uppercase[i] = c]
    ELSE c

\* str.lower
lower(name) == [i \in 1..Len(name) |-> lower_character(name[i])]

copper == <<"c", "o", "p", "p", "e", "r">>

steel == <<"s", "t", "e", "e", "l">>

titanium == <<"t", "i", "t", "a", "n", "i", "u", "m">>

inconel == <<"i", "n", "c", "o", "n", "e", "l">>

\* a Material; thermal_expansion, elastic_modulus and yield_strength are not
\* carried
Material(name, density, thermal_conductivity, specific_heat, melting_point) ==
    [name |-> name, density |-> density,
     thermal_conductivity |-> thermal_conductivity,
     specific_heat |-> specific_heat, melting_point |-> melting_point,
     gamma |-> gamma]

\* the MATERIALS table as the module creates it
MATERIALS ==
    (copper :> Material(copper, FromInt(8960), FromInt(401), FromInt(385),
                        Dec(135777, 100)))
    @@ (steel :> Material(steel, FromInt(7850), FromInt(50), FromInt(490),
                          FromInt(1811)))
    @@ (titanium :> Material(titanium, FromInt(4500), Dec(219, 10), FromInt(520),
                             FromInt(1941)))
    @@ (inconel :> Material(inconel, FromInt(8440), Dec(114, 10), FromInt(434),
                            FromInt(1673)))

\* get_material, were it to look name up as it is given
get_material_as_given(table, name) ==
    IF name \in DOMAIN table THEN Returned(table[name]) ELSE Raised("ValueError")

\* get_material on the table: MATERIALS.get(name.lower()), ValueError for None
get_material(table, name) ==
    IF lower(name) \in DOMAIN table THEN Returned(table[lower(name)])
    ELSE Raised("ValueError")

----------------------------------------------------------------------------
(* nozzle_geometry.py and geometries.py                                    *)

\* a call by keywords binds when the keywords are the parameters, none of
\* which has a default; otherwise the call raises TypeError
Binds(keywords, parameters) == keywords = parameters

\* the parameters of FlowSolver.calculate_flow_properties
FlowSolver_calculate_flow_properties == {"mach", "total_pressure", "total_temperature"}

\* the fields of the dataclass NozzleSegment of nozzle_geometry.py
NozzleSegment ==
    {"start_x", "end_x", "start_radius", "end_radius", "angle", "length",
     "area_ratio", "mach_number", "pressure", "temperature",
     "wall_temperature", "heat_flux"}

n_segments == 50

\* _generate_segments: the first pass of its loop calls
\* flow_solver.calculate_flow_properties(area_ratio=..., chamber_state=...),
\* so no pass completes and no list is returned
generate_segments(throat_radius, exit_radius, length) ==
    IF n_segments - 1 >= 1
       /\ ~Binds({"area_ratio", "chamber_state"}, FlowSolver_calculate_flow_properties)
    THEN Raised("TypeError")
    ELSE Raised("unmodelled")

None == [class |-> "None"]

\* ConicalNozzle.__init__; the quotient of two Python floats raises at zero
ConicalNozzle(throat_radius, exit_radius, length, wall_angle) ==
    IF throat_radius = Zero THEN Raised("ZeroDivisionError")
    ELSE Returned([class |-> "ConicalNozzle",
                   throat_radius |-> throat_radius,
                   exit_radius |-> exit_radius,
                   length |-> length,
                   expansion_ratio |-> FMul(FDiv(exit_radius, throat_radius),
                                            FDiv(exit_radius, throat_radius)),
                   wall_angle |-> wall_angle])

\* AerospikeNozzle.__init__
AerospikeNozzle(throat_radius, exit_radius, length, wall_angle, spike_angle) ==
    IF throat_radius = Zero THEN Raised("ZeroDivisionError")
    ELSE Returned([class |-> "AerospikeNozzle",
                   throat_radius |-> throat_radius,
                   exit_radius |-> exit_radius,
                   length |-> length,
                   expansion_ratio |-> FMul(FDiv(exit_radius, throat_radius),
                                            FDiv(exit_radius, throat_radius)),
                   wall_angle |-> wall_angle,
                   spike_angle |-> spike_angle])

\* get_radius measured from the exit radius instead of the throat radius
get_radius_from_exit(self, x) ==
    IF self.class = "ConicalNozzle"
    THEN FAdd(self.exit_radius, FMul(x, FTan(radians(self.wall_angle))))
    ELSE FSub(FAdd(self.exit_radius, FMul(x, FTan(radians(self.wall_angle)))),
              FAdd(self.exit_radius, FMul(x, FTan(radians(self.spike_angle)))))

\* get_radius of ConicalNozzle and of AerospikeNozzle
get_radius(self, x) ==
    IF self.class = "ConicalNozzle"
    THEN FAdd(self.throat_radius, FMul(x, FTan(radians(self.wall_angle))))
    ELSE FSub(FAdd(self.throat_radius, FMul(x, FTan(radians(self.wall_angle)))),
              FAdd(self.throat_radius, FMul(x, FTan(radians(self.spike_angle)))))

\* BellNozzle._generate_contour: the radius at the station xi, throat_length
\* being 0.382 * throat_radius
bell_radius(self, xi, throat_length) ==
    IF FLt(xi, throat_length)
    THEN FMul(self.throat_radius,
              FAdd(One, FCos(FDiv(FMul(radians(FromInt(30)), xi), throat_length))))
    ELSE FAdd(self.throat_radius,
              FMul(FSub(self.exit_radius, self.throat_radius),
                   FDiv(FSub(xi, throat_length), FSub(self.length, throat_length))))

\* BellNozzle._generate_contour: self.contour, the points (x[k], r[k])
generate_contour(self) ==
    [k \in 0..(n_points - 1) |->
        [x |-> linspace(self.length, k),
         y |-> bell_radius(self, linspace(self.length, k),
                           FMul(Dec(382, 1000), self.throat_radius))]]

\* the attributes of a BellNozzle before the contour is generated
bell_attributes(throat_radius, exit_radius, length, wall_angle) ==
    [class |-> "BellNozzle",
     throat_radius |-> throat_radius,
     exit_radius |-> exit_radius,
     length |-> length,
     expansion_ratio |-> FMul(FDiv(exit_radius, throat_radius),
                              FDiv(exit_radius, throat_radius)),
     wall_angle |-> wall_angle,
     n_points |-> n_points]

\* BellNozzle.__init__ with the default n_points
BellNozzle(throat_radius, exit_radius, length, wall_angle) ==
    IF throat_radius = Zero THEN Raised("ZeroDivisionError")
    ELSE Returned([contour |-> generate_contour(bell_attributes(throat_radius, exit_radius, length, wall_angle))]
                  @@ bell_attributes(throat_radius, exit_radius, length, wall_angle))

\* BellNozzle.get_radius
BellNozzle_get_radius(self, x) == interp(x, self.contour)

\* DualBellNozzle.__init__
DualBellNozzle(throat_radius, exit_radius, length, wall_angle, inflection_point) ==
    IF throat_radius = Zero THEN Raised("ZeroDivisionError")
    ELSE Returned([class |-> "DualBellNozzle",
                   throat_radius |-> throat_radius,
                   exit_radius |-> exit_radius,
                   length |-> length,
                   expansion_ratio |-> FMul(FDiv(exit_radius, throat_radius),
                                            FDiv(exit_radius, throat_radius)),
                   wall_angle |-> wall_angle,
                   inflection_point |-> inflection_point])

\* the depth of nested calls at which RecursionError is raised: the
\* interpreter's limit is 1000 frames by default, the nested call of get_radius
\* repeats itself with the same argument, so the lower cap leads to the same
\* outcome
MaxDepth == 5

\* the second bell of DualBellNozzle.get_radius, r1 being what the nested
\* call self.get_radius(x1) came to
second_bell(self, x, x1, r1) ==
    IF r1.status # "ok" THEN r1
    ELSE Returned(FAdd(r1.value,
                       FMul(FSub(x, x1),
                            FTan(radians(FMul(self.wall_angle, Dec(15, 10)))))))

\* DualBellNozzle.get_radius as the call number depth on the stack
RECURSIVE DualBellNozzle_get_radius(_, _, _)
DualBellNozzle_get_radius(self, x, depth) ==
    IF depth > MaxDepth THEN Raised("RecursionError")
    ELSE IF FLt(x, FMul(self.length, self.inflection_point))
    THEN Returned(FAdd(self.throat_radius, FMul(x, FTan(radians(self.wall_angle)))))
    ELSE second_bell(self, x, FMul(self.length, self.inflection_point),
                     DualBellNozzle_get_radius(self, FMul(self.length, self.inflection_point), depth + 1))

\* self.get_radius(x), by the class of self
call_get_radius(self, x) ==
    IF self.class = "BellNozzle" THEN Returned(BellNozzle_get_radius(self, x))
    ELSE IF self.class = "DualBellNozzle" THEN DualBellNozzle_get_radius(self, x, 1)
    ELSE Returned(get_radius(self, x))

\* the arguments of the first NozzleSegment(...) call of get_segments are
\* evaluated before the call: get_radius(x[0]), then get_radius(x[1])
first_segment_radii(self, n, start, end) ==
    IF start.status # "ok" THEN start
    ELSE IF end.status # "ok" THEN end
    ELSE IF ~Binds({"start_x", "start_radius", "end_x", "end_radius", "type"},
                   NozzleSegment)
    THEN Raised("TypeError")
    ELSE Raised("unmodelled")

\* NozzleGeometry.get_segments: np.linspace refuses a negative n, the loop is
\* empty for n <= 1, and its first pass calls NozzleSegment(start_x=...,
\* start_radius=..., end_x=..., end_radius=..., type='generic')
get_segments(self, n) ==
    IF n < 0 THEN Raised("ValueError")
    ELSE IF n - 1 <= 0 THEN Returned(<<>>)
    ELSE first_segment_radii(self, n, call_get_radius(self, Zero),
                             call_get_radius(self, FDiv(self.length, FromInt(n - 1))))

\* _calculate_thrust_coefficient: momentum term plus pressure term
calculate_thrust_coefficient(exit_pressure, exit_mach, chamber_pressure_, ambient_pressure) ==
    FAdd(FMul(exit_mach,
              FSqrt(FMul(FDiv(FromInt(2), FSub(gamma, One)),
                         FAdd(One, FMul(gm1_over_two, FSquare(exit_mach)))))),
         FDiv(FSub(exit_pressure, ambient_pressure), chamber_pressure_))

\* _calculate_specific_impulse
calculate_specific_impulse(thrust_coeff, chamber_pressure_, throat_area, mass_flow) ==
    FDiv(FMul(FMul(thrust_coeff, chamber_pressure_), throat_area),
         FMul(mass_flow, Dec(981, 100)))

\* _calculate_efficiency: the quotient, as it comes
calculate_efficiency(thrust_coeff, ideal_thrust_coeff) ==
    FDiv(thrust_coeff, ideal_thrust_coeff)

\* sqrt(2*gamma**2/(gamma-1) * (2/(gamma+1))**((gamma+1)/(gamma-1))
\*      * (1 - pr**((gamma-1)/gamma))) for 0 <= pr < 1; (gamma-1)/gamma is 2/7
\* for the modelled gamma
ideal_thrust_term(pr) ==
    FSqrt(FMul(FMul(FDiv(FMul(FromInt(2), FSquare(gamma)), FSub(gamma, One)),
                    Pow(two_over_gp1, FDiv(FAdd(gamma, One), FSub(gamma, One)))),
               FSub(One, PowRational(pr, 2, 7))))

\* _calculate_ideal_thrust_coefficient
calculate_ideal_thrust_coefficient(chamber_pressure_, ambient_pressure) ==
    ideal_thrust_term(FDiv(ambient_pressure, chamber_pressure_))

\* the mapping _calculate_performance_metrics returns
metrics_of(thrust_coeff, segments, chamber_state) ==
    [thrust_coefficient |-> thrust_coeff,
     specific_impulse |->
        calculate_specific_impulse(thrust_coeff, chamber_state.pressure,
                                   FMul(FSquare(segments[1].start_radius), pi),
                                   chamber_state.mass_flow),
     efficiency |->
        calculate_efficiency(thrust_coeff,
            calculate_ideal_thrust_coefficient(chamber_state.pressure,
                                               chamber_state.ambient_pressure)),
     exit_mach |-> segments[Len(segments)].mach_number]

\* _calculate_performance_metrics of nozzle_geometry.py, for a chamber pressure
\* above the ambient pressure
calculate_performance_metrics(segments, chamber_state) ==
    Returned(metrics_of(
        calculate_thrust_coefficient(segments[Len(segments)].pressure,
                                     segments[Len(segments)].mach_number,
                                     chamber_state.pressure,
                                     chamber_state.ambient_pressure),
        segments, chamber_state))

\* _calculate_throat_area of nozzle_geometry.py, for gamma = 1.4:
\* m_dot * sqrt(R * Tt) / (pt * sqrt(gamma))
calculate_throat_area(chamber_state) ==
    FDiv(FMul(chamber_state.mass_flow,
              FSqrt(FMul(chamber_state.gas_constant,
                         FMul(chamber_state.temperature,
                              FDiv(FromInt(2), FAdd(gamma, One)))))),
         FMul(FMul(chamber_state.pressure, critical_pressure_ratio), FSqrt(gamma)))

\* the NozzleGeometry of calculate_geometry once its segments were generated
geometry_of(segments, metrics) ==
    IF segments.status # "ok" THEN Raised(segments.status)
    ELSE IF metrics.status # "ok" THEN Raised(metrics.status)
    ELSE Returned([segments |-> segments.value,
                   performance_metrics |-> metrics.value])

\* calculate_geometry past _generate_segments; the metrics are computed only
\* from a list that was returned
geometry_with(segments, chamber_state) ==
    geometry_of(segments,
                IF segments.status = "ok"
                THEN calculate_performance_metrics(segments.value, chamber_state)
                ELSE Raised(segments.status))

\* calculate_geometry from the throat and exit radius
geometry_from(throat_radius, exit_radius, length_ratio, chamber_state) ==
    geometry_with(generate_segments(throat_radius, exit_radius,
                                    FMul(throat_radius, length_ratio)),
                  chamber_state)

\* calculate_geometry from the throat area
geometry_at(throat_area, length_ratio, chamber_state) ==
    geometry_from(FSqrt(FDiv(throat_area, pi)),
                  FSqrt(FDiv(FMul(throat_area, chamber_state.area_ratio), pi)),
                  length_ratio, chamber_state)

\* NozzleGeometryCalculator.calculate_geometry
calculate_geometry(divergence_angle, length_ratio, chamber_state) ==
    geometry_at(calculate_throat_area(chamber_state), length_ratio, chamber_state)

\* optimize_for_mach: minimize evaluates objective at x0 = [15.0, 2.0] first,
\* and objective calls calculate_geometry; what that call raises leaves
\* minimize and optimize_for_mach.  The search of minimize is not modelled.
optimize_from(first, target_mach, chamber_state) ==
    IF first.status # "ok" THEN Raised(first.status) ELSE Raised("unmodelled")

\* NozzleGeometryCalculator.optimize_for_mach
optimize_for_mach(target_mach, chamber_state) ==
    optimize_from(calculate_geometry(FromInt(15), FromInt(2), chamber_state),
                  target_mach, chamber_state)

\* calculate_area_ratio of engineering_calculations.py reads
\* gas_properties.gamma, which a float does not have
engineering_calculate_area_ratio(mach, gas_properties) ==
    IF gas_properties.class = "GasProperties"
    THEN Returned(calculate_area_ratio(mach))
    ELSE Raised("AttributeError")

\* term1 + term2 of calculate_thrust_coefficient once area_ratio was called
thrust_coefficient_sum(pressure_ratio, area_ratio) ==
    IF area_ratio.status # "ok" THEN Raised(area_ratio.status)
    ELSE Returned(FAdd(ideal_thrust_term(pressure_ratio),
                       FMul(FSub(pressure_ratio, One), area_ratio.value)))

\* calculate_thrust_coefficient of engineering_calculations.py, which calls
\* self.calculate_area_ratio(mach, gamma) with the float gamma
engineering_calculate_thrust_coefficient(mach, gamma_, pressure_ratio) ==
    thrust_coefficient_sum(pressure_ratio,
                           engineering_calculate_area_ratio(mach, gamma_))

\* the mapping calculate_performance_metrics of engineering_calculations.py
\* returns once thrust_coef was called; the second call of
\* calculate_thrust_coefficient returns what the first did
engineering_metrics_of(exit_mach, thrust_coef) ==
    IF thrust_coef.status # "ok" THEN Raised(thrust_coef.status)
    ELSE Returned([thrust_coefficient |-> thrust_coef.value,
                   efficiency |-> FDiv(thrust_coef.value, thrust_coef.value),
                   exit_mach |-> exit_mach])

\* calculate_performance_metrics once exit_mach was called
engineering_metrics_at(exit_mach, pressure_ratio) ==
    IF exit_mach.status # "ok" THEN Raised(exit_mach.status)
    ELSE engineering_metrics_of(exit_mach.value,
            engineering_calculate_thrust_coefficient(exit_mach.value,
                                                     [class |-> "float"],
                                                     pressure_ratio))

\* calculate_performance_metrics of engineering_calculations.py
engineering_calculate_performance_metrics(chamber_pressure_, back_pressure, area_ratio) ==
    engineering_metrics_at(engineering_calculate_mach_from_area(area_ratio),
                           FDiv(back_pressure, chamber_pressure_))

----------------------------------------------------------------------------
(* The calls.  op names the operation that ran last, args holds its        *)
(* arguments and result what it returned or raised; nozzle is the contour  *)
(* object constructed so far.                                              *)

(* session_manager.py: DesignSession and SessionManager                    *)

\* a Python int where None is possible too
Integer(k) == [class |-> "int", value |-> k]

\* a datetime at the instant t, and its ISO string
datetime(t) == [class |-> "datetime", at |-> t]

isoformat(d) == [class |-> "str", iso |-> d.at]

fromisoformat(text) == datetime(text.iso)

\* DesignSession(name=name) at the instant now: __post_init__ stamps both
\* dates and sets the empty segment list; the other fields keep their
\* defaults and are not carried
DesignSession(name, now) ==
    [id |-> None, name |-> name, created_at |-> datetime(now),
     modified_at |-> datetime(now), segments |-> <<>>]

\* DesignSession.to_dict: asdict with the dates as strings
to_dict(self) ==
    [self EXCEPT !.created_at = isoformat(self.created_at),
                 !.modified_at = isoformat(self.modified_at)]

\* DesignSession.from_dict: cls(**data) with the dates parsed
from_dict(data) ==
    [data EXCEPT !.created_at = fromisoformat(data.created_at),
                 !.modified_at = fromisoformat(data.modified_at)]

\* json.dumps and json.loads of the data column
dumps(data) == [class |-> "json", of |-> data]

loads(text) == text.of

\* the table design_sessions after _init_db: no rows, no id handed out yet
empty_database == [rows |-> <<>>, sequence |-> 0]

\* session.modified_at = datetime.now()
modified(session, now) == [session EXCEPT !.modified_at = datetime(now)]

\* the INSERT of save_session: AUTOINCREMENT hands out the id after the
\* largest one ever used
insert_session(db, session) ==
    [rows |-> (db.sequence + 1 :> [name |-> session.name,
                                   created_at |-> isoformat(session.created_at),
                                   modified_at |-> isoformat(session.modified_at),
                                   data |-> dumps(to_dict(session))]) @@ db.rows,
     sequence |-> db.sequence + 1]

\* the UPDATE of save_session: it changes the row of that id, if there is one
update_session(db, session) ==
    IF session.id.value \in DOMAIN db.rows
    THEN [db EXCEPT !.rows[session.id.value] =
            [@ EXCEPT !.name = session.name,
                      !.modified_at = isoformat(session.modified_at),
                      !.data = dumps(to_dict(session))]]
    ELSE db

\* save_session: the table after the call; data is taken from the session
\* before an id is assigned to it
save_session_database(db, session, now) ==
    IF session.id = None THEN insert_session(db, modified(session, now))
    ELSE update_session(db, modified(session, now))

\* save_session: the session object after the call
save_session_session(db, session, now) ==
    IF session.id = None
    THEN [modified(session, now) EXCEPT !.id = Integer(db.sequence + 1)]
    ELSE modified(session, now)

\* save_session: return session.id
save_session(db, session, now) == Returned(save_session_session(db, session, now).id)

\* load_session
load_session(db, session_id) ==
    IF session_id \notin DOMAIN db.rows THEN Raised("ValueError")
    ELSE Returned(from_dict(loads(db.rows[session_id].data)))

\* delete_session
delete_session(db, session_id) ==
    [db EXCEPT !.rows = [k \in DOMAIN db.rows \ {session_id} |-> db.rows[k]]]

----------------------------------------------------------------------------
VARIABLES op, args, result, nozzle, instance, materials, database, session

vars == <<op, args, result, nozzle, instance, materials, database, session>>

NoArgs == [none |-> TRUE]

\* the attributes the constructors of FlowRegime and of the engineering
\* NozzleGeometryCalculator assign, which their methods read
Instances ==
    [gas_props |-> [gamma |-> gamma, cp |-> cp],
     N_SEGMENTS |-> N_SEGMENTS,
     THRROAT_SEGMENT_RATIO |-> THRROAT_SEGMENT_RATIO,
     PRANDTL_NUMBER |-> PRANDTL_NUMBER,
     WALL_THICKNESS |-> WALL_THICKNESS]

Init ==
    /\ op = "none"
    /\ args = NoArgs
    /\ result = Raised("none")
    /\ nozzle = None
    /\ instance = Instances
    /\ materials = MATERIALS
    /\ database = empty_database
    /\ session = None

\* the area ratio 0.28124859375 = A(2) - 1.000001 * A'(2): from the supersonic
\* guess 2.0 the first Newton step lands on 0.999999, where x + h is the sonic
\* point and the area ratio at x and at x + h agree to twelve decimals
sonic_step_area_ratio == FSub(Dec(16875, 10^4), FMul(Dec(1000001, 10^6), Dec(140625, 10^5)))

\* the area ratios of the direct solver calls
SolverAreaRatios == AreaRatios \cup {sonic_step_area_ratio}

FlowRegime_calculate_mach_from_area ==
    /\ op = "none"
    /\ \E area_ratio \in SolverAreaRatios, is_subsonic \in BOOLEAN :
          /\ op' = "FlowRegime.calculate_mach_from_area"
          /\ args' = [area_ratio |-> area_ratio, is_subsonic |-> is_subsonic]
          /\ result' = calculate_mach_from_area(area_ratio, is_subsonic)
    /\ UNCHANGED <<nozzle, instance, materials, database, session>>

\* the Mach numbers whose area ratio is inverted again: subsonic ones down to
\* 0.2, near-sonic ones, supersonic ones
Machs == {Dec(2, 10), Dec(5, 10), Dec(9, 10), Dec(99, 100), Dec(15, 10), FromInt(3)}

\* calculate_area_ratio(mach), then calculate_mach_from_area of it with
\* is_subsonic set by the side of 1.0 that mach is on
FlowRegime_round_trip ==
    /\ op = "none"
    /\ \E mach \in Machs :
          /\ op' = "round_trip"
          /\ args' = [mach |-> mach, area_ratio |-> calculate_area_ratio(mach),
                      is_subsonic |-> FLt(mach, One)]
          /\ result' = calculate_mach_from_area(args'.area_ratio, args'.is_subsonic)
    /\ UNCHANGED <<nozzle, instance, materials, database, session>>

Engineering_calculate_mach_from_area ==
    /\ op = "none"
    /\ \E area_ratio \in SolverAreaRatios :
          /\ op' = "NozzleGeometryCalculator.calculate_mach_from_area"
          /\ args' = [area_ratio |-> area_ratio]
          /\ result' = engineering_calculate_mach_from_area(area_ratio)
    /\ UNCHANGED <<nozzle, instance, materials, database, session>>

PressureSteps == 4

InletPressures == {FromInt(101325), FromInt(2000000)}

\* the back pressure at the design threshold, where there is a design Mach
DesignPressures(inlet_pressure, design_mach) ==
    IF design_mach.status # "ok" THEN {}
    ELSE {FMul(inlet_pressure, design_pressure_ratio(design_mach.value))}

\* back pressures from vacuum to above the inlet pressure, with the two
\* thresholds of the classification themselves
BackPressures(inlet_pressure, area_ratio) ==
    {FDiv(FMul(inlet_pressure, FromInt(k)), FromInt(PressureSteps)) :
        k \in 0..(PressureSteps + 1)}
    \cup {FMul(inlet_pressure, critical_pressure_ratio)}
    \cup DesignPressures(inlet_pressure, calculate_mach_from_area(area_ratio, FALSE))

\* one FlowRegime classifies again and again
FlowRegime_determine_flow_regime ==
    /\ op \in {"none", "determine_flow_regime"}
    /\ \E area_ratio \in AreaRatios, inlet_pressure \in InletPressures :
         \E back_pressure \in BackPressures(inlet_pressure, area_ratio) :
            /\ op' = "determine_flow_regime"
            /\ args' = [inlet_pressure |-> inlet_pressure,
                        back_pressure |-> back_pressure,
                        area_ratio |-> area_ratio]
            /\ result' = determine_flow_regime(inlet_pressure, back_pressure,
                                               area_ratio)
    /\ UNCHANGED <<nozzle, instance, materials, database, session>>

\* throat radius, exit radius and length of the geometries that are built:
\* exit at the throat radius, slightly above it, twice it, a longer nozzle,
\* and a negative length
Geometries ==
    {[throat_radius |-> Dec(5, 100), exit_radius |-> Dec(5, 100), length |-> Dec(3, 10)],
     [throat_radius |-> Dec(5, 100), exit_radius |-> Dec(52, 1000), length |-> Dec(3, 10)],
     [throat_radius |-> Dec(5, 100), exit_radius |-> Dec(1, 10), length |-> Dec(3, 10)],
     [throat_radius |-> Dec(5, 100), exit_radius |-> Dec(1, 10), length |-> Dec(45, 100)],
     [throat_radius |-> Dec(2, 10), exit_radius |-> Dec(4, 10), length |-> Dec(-3, 10)]}

chamber_pressure == FromInt(2000000)

chamber_temperature == FromInt(3000)

\* every geometry in copper with the hot chamber, whose recovery temperature
\* is above every material's maximum temperature, and the doubling nozzle in
\* each material with a chamber at 1500 K, whose recovery temperature is
\* below steel's
SegmentCases ==
    {[geometry |-> g, temperature |-> chamber_temperature, material |-> "copper"] :
        g \in Geometries}
    \cup {[geometry |-> [throat_radius |-> Dec(5, 100), exit_radius |-> Dec(1, 10),
                         length |-> Dec(3, 10)],
           temperature |-> FromInt(1500), material |-> material] :
             material \in DOMAIN DEFAULT_MATERIALS}

\* the flow part of calculate_segments on the drawn geometries and chamber
\* temperatures, each built once
flow_segment_lists ==
    [flow \in {[geometry |-> case.geometry, temperature |-> case.temperature] :
                  case \in SegmentCases} |->
        calculate_segments(flow.geometry.throat_radius, flow.geometry.exit_radius,
                           flow.geometry.length, FromInt(15), chamber_pressure,
                           flow.temperature)]

\* calculate_segments on the drawn cases, each built once
segment_lists ==
    [case \in SegmentCases |->
        segments_with_heat_transfer(
            flow_segment_lists[[geometry |-> case.geometry,
                                temperature |-> case.temperature]],
            chamber_pressure, DEFAULT_MATERIALS[case.material])]

Engineering_calculate_segments ==
    /\ op = "none"
    /\ \E case \in SegmentCases :
          /\ op' = "calculate_segments"
          /\ args' = [throat_radius |-> case.geometry.throat_radius,
                      exit_radius |-> case.geometry.exit_radius,
                      length |-> case.geometry.length,
                      divergence_angle |-> FromInt(15),
                      chamber_temperature |-> case.temperature,
                      material |-> case.material]
          /\ result' = segment_lists[case]
    /\ UNCHANGED <<nozzle, instance, materials, database, session>>

NozzleGeometryCalculator_generate_segments ==
    /\ op = "none"
    /\ \E g \in Geometries :
          /\ op' = "_generate_segments"
          /\ args' = [throat_radius |-> g.throat_radius,
                      exit_radius |-> g.exit_radius,
                      length |-> g.length]
          /\ result' = generate_segments(g.throat_radius, g.exit_radius, g.length)
    /\ UNCHANGED <<nozzle, instance, materials, database, session>>

\* ambient pressures: vacuum and sea level
AmbientPressures == {Zero, FromInt(101325)}

MassFlows == {One, FromInt(10)}

\* the evaluator of nozzle_geometry.py on a segment list that was built
NozzleGeometry_calculate_performance_metrics ==
    /\ op = "calculate_segments"
    /\ result.status = "ok"
    /\ \E ambient_pressure \in AmbientPressures, mass_flow \in MassFlows :
          /\ op' = "_calculate_performance_metrics"
          /\ args' = [segments |-> result.value,
                      pressure |-> chamber_pressure,
                      ambient_pressure |-> ambient_pressure,
                      mass_flow |-> mass_flow]
          /\ result' = calculate_performance_metrics(result.value, args')
    /\ UNCHANGED <<nozzle, instance, materials, database, session>>

Engineering_calculate_performance_metrics ==
    /\ op = "none"
    /\ \E area_ratio \in AreaRatios, back_pressure \in AmbientPressures :
          /\ op' = "calculate_performance_metrics"
          /\ args' = [area_ratio |-> area_ratio, back_pressure |-> back_pressure]
          /\ result' = engineering_calculate_performance_metrics(
                            chamber_pressure, back_pressure, area_ratio)
    /\ UNCHANGED <<nozzle, instance, materials, database, session>>

\* the constructor arguments: radii and lengths below, at and above zero,
\* an exit narrower and wider than the throat
Radii == {Dec(-5, 100), Zero, Dec(5, 100), Dec(1, 10)}

Lengths == {Dec(-3, 10), Zero, Dec(3, 10)}

WallAngles == {FromInt(15)}

SpikeAngles == {FromInt(10), FromInt(20)}

\* the object a constructor call leaves behind
Constructed(made) == IF made.status = "ok" THEN made.value ELSE None

ConicalNozzle_init ==
    /\ op = "none"
    /\ \E throat_radius \in Radii, exit_radius \in Radii, length \in Lengths,
          wall_angle \in WallAngles :
          /\ op' = "ConicalNozzle"
          /\ args' = [throat_radius |-> throat_radius,
                      exit_radius |-> exit_radius,
                      length |-> length, wall_angle |-> wall_angle]
          /\ result' = ConicalNozzle(throat_radius, exit_radius, length, wall_angle)
          /\ nozzle' = Constructed(result')
    /\ UNCHANGED <<instance, materials, database, session>>

AerospikeNozzle_init ==
    /\ op = "none"
    /\ \E throat_radius \in Radii, exit_radius \in Radii, length \in Lengths,
          wall_angle \in WallAngles, spike_angle \in SpikeAngles :
          /\ op' = "AerospikeNozzle"
          /\ args' = [throat_radius |-> throat_radius,
                      exit_radius |-> exit_radius,
                      length |-> length, wall_angle |-> wall_angle,
                      spike_angle |-> spike_angle]
          /\ result' = AerospikeNozzle(throat_radius, exit_radius, length,
                                       wall_angle, spike_angle)
          /\ nozzle' = Constructed(result')
    /\ UNCHANGED <<instance, materials, database, session>>

\* bell nozzles of positive size, an exit as wide as and wider than the throat
BellNozzle_init ==
    /\ op = "none"
    /\ \E throat_radius \in {Dec(5, 100)}, exit_radius \in {Dec(5, 100), Dec(1, 10)},
          length \in {Dec(3, 10)}, wall_angle \in WallAngles :
          /\ op' = "BellNozzle"
          /\ args' = [throat_radius |-> throat_radius,
                      exit_radius |-> exit_radius,
                      length |-> length, wall_angle |-> wall_angle]
          /\ result' = BellNozzle(throat_radius, exit_radius, length, wall_angle)
          /\ nozzle' = Constructed(result')
    /\ UNCHANGED <<instance, materials, database, session>>

\* the inflection point at the default 0.5 and at the end of the range
InflectionPoints == {Dec(5, 10), One}

DualBellNozzle_init ==
    /\ op = "none"
    /\ \E throat_radius \in {Dec(5, 100)}, exit_radius \in {Dec(1, 10)},
          length \in {Dec(3, 10)}, wall_angle \in WallAngles,
          inflection_point \in InflectionPoints :
          /\ op' = "DualBellNozzle"
          /\ args' = [throat_radius |-> throat_radius,
                      exit_radius |-> exit_radius,
                      length |-> length, wall_angle |-> wall_angle,
                      inflection_point |-> inflection_point]
          /\ result' = DualBellNozzle(throat_radius, exit_radius, length,
                                      wall_angle, inflection_point)
          /\ nozzle' = Constructed(result')
    /\ UNCHANGED <<instance, materials, database, session>>

XSteps == 2

\* the stations of a contour: 0, length and XSteps - 1 stations in between
Stations(self) ==
    {FDiv(FMul(self.length, FromInt(k)), FromInt(XSteps)) : k \in 0..XSteps}

Nozzle_get_radius ==
    /\ nozzle # None
    /\ \E x \in Stations(nozzle) :
          /\ op' = "get_radius"
          /\ args' = [x |-> x]
          /\ result' = call_get_radius(nozzle, x)
    /\ UNCHANGED <<nozzle, instance, materials, database, session>>

MaxN == 3

Nozzle_get_segments ==
    /\ nozzle # None
    /\ \E n \in 0..MaxN :
          /\ op' = "get_segments"
          /\ args' = [n |-> n]
          /\ result' = get_segments(nozzle, n)
    /\ UNCHANGED <<nozzle, instance, materials, database, session>>

\* chamber states as the dictionary of nozzle_geometry.py: 10 MPa, 3000 K,
\* 10 kg/s, R = 287, sea-level ambient pressure, area ratio 4 or 10
ChamberStates ==
    {[pressure |-> FromInt(10000000), temperature |-> FromInt(3000),
      mass_flow |-> FromInt(10), gas_constant |-> FromInt(287),
      area_ratio |-> a, ambient_pressure |-> FromInt(101325)] :
        a \in {FromInt(4), FromInt(10)}}

LengthRatios == {FromInt(2), FromInt(3)}

NozzleGeometryCalculator_calculate_geometry ==
    /\ op = "none"
    /\ \E chamber_state \in ChamberStates, length_ratio \in LengthRatios :
          /\ op' = "calculate_geometry"
          /\ args' = [divergence_angle |-> FromInt(15),
                      length_ratio |-> length_ratio,
                      chamber_state |-> chamber_state]
          /\ result' = calculate_geometry(FromInt(15), length_ratio, chamber_state)
    /\ UNCHANGED <<nozzle, instance, materials, database, session>>

TargetMachs == {FromInt(2), FromInt(3)}

NozzleGeometryCalculator_optimize_for_mach ==
    /\ op = "none"
    /\ \E chamber_state \in ChamberStates, target_mach \in TargetMachs :
          /\ op' = "optimize_for_mach"
          /\ args' = [target_mach |-> target_mach, chamber_state |-> chamber_state]
          /\ result' = optimize_for_mach(target_mach, chamber_state)
    /\ UNCHANGED <<nozzle, instance, materials, database, session>>

\* the area ratios of the nozzles whose flow is calculated: the throat's, one
\* below the shock area ratio, the shock area ratio, and one above it
NozzleAreaRatios == {One, Dec(12, 10), shock_area_ratio, FromInt(2)}

ConvergingDivergingNozzle_calculate_flow ==
    /\ op = "none"
    /\ \E area_ratio \in NozzleAreaRatios :
         \E back_pressure \in BackPressures(chamber_pressure, area_ratio) :
            /\ op' = "diverging_calculate_flow"
            /\ args' = [inlet_pressure |-> chamber_pressure,
                        back_pressure |-> back_pressure,
                        inlet_temp |-> chamber_temperature,
                        area_ratio |-> area_ratio]
            /\ result' = diverging_calculate_flow(chamber_pressure, back_pressure,
                                                  chamber_temperature, area_ratio)
    /\ UNCHANGED <<nozzle, instance, materials, database, session>>

ConvergingNozzle_calculate_flow ==
    /\ op = "none"
    /\ \E back_pressure \in BackPressures(chamber_pressure, One) :
            /\ op' = "converging_calculate_flow"
            /\ args' = [inlet_pressure |-> chamber_pressure,
                        back_pressure |-> back_pressure,
                        inlet_temp |-> chamber_temperature]
            /\ result' = converging_calculate_flow(chamber_pressure, back_pressure,
                                                   chamber_temperature)
    /\ UNCHANGED <<nozzle, instance, materials, database, session>>

\* names in lower, capitalised, upper and mixed case, of entries and of none,
\* the empty name and a name with a trailing blank
MaterialNames ==
    {copper, steel, titanium, inconel,
     <<"C", "o", "p", "p", "e", "r">>, <<"C", "O", "P", "P", "E", "R">>,
     <<"S", "t", "e", "e", "L">>, <<"I", "N", "C", "O", "N", "E", "L">>,
     <<"T", "i", "t", "a", "n", "i", "u", "m">>,
     <<"b", "r", "a", "s", "s">>, <<"B", "r", "a", "s", "s">>,
     <<"c", "o", "p", "p", "e", "r", " ">>, <<"C", "u">>, <<>>}

\* get_material is called again and again on the one table
Materials_get_material ==
    /\ op \in {"none", "get_material"}
    /\ \E name \in MaterialNames :
          /\ op' = "get_material"
          /\ args' = [name |-> name]
          /\ result' = get_material(materials, name)
    /\ UNCHANGED <<nozzle, instance, materials, database, session>>

\* two design evaluations on the same instances: an area ratio with a back
\* pressure and a geometry each
EvaluationInputs ==
    {[area_ratio |-> One, back_pressure |-> Zero,
      geometry |-> [throat_radius |-> Dec(5, 100), exit_radius |-> Dec(5, 100),
                    length |-> Dec(3, 10)]],
     [area_ratio |-> One, back_pressure |-> chamber_pressure,
      geometry |-> [throat_radius |-> Dec(5, 100), exit_radius |-> Dec(1, 10),
                    length |-> Dec(3, 10)]],
     [area_ratio |-> FromInt(2), back_pressure |-> Zero,
      geometry |-> [throat_radius |-> Dec(5, 100), exit_radius |-> Dec(1, 10),
                    length |-> Dec(3, 10)]],
     [area_ratio |-> FromInt(2), back_pressure |-> chamber_pressure,
      geometry |-> [throat_radius |-> Dec(5, 100), exit_radius |-> Dec(5, 100),
                    length |-> Dec(3, 10)]]}

\* the core operations of an evaluation in the order it calls them: Mach
\* inversion, regime classification, segment building
core_operation(k, input) ==
    IF k = 1 THEN calculate_mach_from_area(input.area_ratio, FALSE)
    ELSE IF k = 2
    THEN determine_flow_regime(chamber_pressure, input.back_pressure, input.area_ratio)
    ELSE segment_lists[[geometry |-> input.geometry,
                        temperature |-> chamber_temperature,
                        material |-> "copper"]]

\* what a core operation returns on an instance: the methods read the
\* attributes the constructor assigned
on_instance(self, returned) ==
    IF self = Instances THEN returned ELSE Raised("unmodelled")

\* the attributes of self, were a core operation to keep what it returns in
\* gas_props
attributes_after_storing(self, returned) == [self EXCEPT !.gas_props = returned]

\* the attributes of self after a core operation: the methods assign to
\* locals only
attributes_after(self, returned) == self

\* the evaluations start with nothing called yet
Evaluations_start ==
    /\ op = "none"
    /\ \E first \in EvaluationInputs, second \in EvaluationInputs :
          /\ op' = "evaluations"
          /\ args' = <<first, second>>
          /\ result' = Returned(<< <<>>, <<>> >>)
    /\ UNCHANGED <<nozzle, instance, materials, database, session>>

\* evaluation e calls its k-th core operation
Evaluation_call(e, k) ==
    /\ op = "evaluations"
    /\ Len(result.value[e]) = k - 1
    /\ result' = [result EXCEPT !.value[e] =
                      Append(@, on_instance(instance, core_operation(k, args[e])))]
    /\ instance' = attributes_after(instance, core_operation(k, args[e]))
    /\ UNCHANGED <<op, args, nozzle, materials, database, session>>

Evaluation_calculate_mach_from_area == \E e \in 1..2 : Evaluation_call(e, 1)

Evaluation_determine_flow_regime == \E e \in 1..2 : Evaluation_call(e, 2)

Evaluation_calculate_segments == \E e \in 1..2 : Evaluation_call(e, 3)

\* exporter.py 18-24: the constructor stores its argument under the one
\* attribute nozzle
NozzleExporter(nozzle_geometry) == [class |-> "NozzleExporter", nozzle |-> nozzle_geometry]

\* model_export.py 13-16: the constructor stores the segment list and two
\* empty lists
NozzleModelExporter(segments) == [class |-> "NozzleModelExporter", segments |-> segments, vertices |-> <<>>, faces |-> <<>>]

\* np.linspace(0, 2*np.pi, resolution, endpoint=False)[k]
mesh_angle(resolution, k) == FMul(FromInt(k), FDiv(FMul(FromInt(2), pi), FromInt(resolution)))

\* [x, start_radius*cos(angle), start_radius*sin(angle)] of one segment
mesh_vertex(s, angle) == <<s.start_x, FMul(s.start_radius, FCos(angle)), FMul(s.start_radius, FSin(angle))>>

\* self.vertices after the loops: pass i (from 0) appends, for each angle, the
\* point on segments[i] and the point on segments[i + 1]
mesh_vertices(segments, resolution) == [n \in 1..((Len(segments) - 1) * 2 * resolution) |-> mesh_vertex(segments[((n - 1) \div (2 * resolution)) + 1 + ((n - 1) % 2)], mesh_angle(resolution, ((n - 1) % (2 * resolution)) \div 2))]

face_v1(i, j, resolution) == i * resolution * 2 + j * 2

\* v3 and v4, with the wrap-around at j == resolution - 1
face_v3(i, j, resolution) == IF j = resolution - 1 THEN i * resolution * 2 ELSE face_v1(i, j, resolution) + 2

face_v4(i, j, resolution) == IF j = resolution - 1 THEN face_v3(i, j, resolution) + 1 ELSE face_v1(i, j, resolution) + 3

\* the two triangles of pass i at j: [v1, v2, v3] then [v2, v4, v3]
mesh_face(i, j, second, resolution) == IF second = 0 THEN <<face_v1(i, j, resolution), face_v1(i, j, resolution) + 1, face_v3(i, j, resolution)>> ELSE <<face_v1(i, j, resolution) + 1, face_v4(i, j, resolution), face_v3(i, j, resolution)>>

mesh_faces(segments, resolution) == [n \in 1..((Len(segments) - 1) * resolution * 2) |-> mesh_face((n - 1) \div (2 * resolution), ((n - 1) % (2 * resolution)) \div 2, (n - 1) % 2, resolution)]

\* generate_mesh of either exporter class: the body is the same, it reads
\* self.segments, an attribute only NozzleModelExporter's constructor sets
generate_mesh(self, resolution) == IF "segments" \in DOMAIN self THEN Returned([vertices |-> mesh_vertices(self.segments, resolution), faces |-> mesh_faces(self.segments, resolution)]) ELSE Raised("AttributeError")

\* the exporter after the call: vertices and faces are cleared first and hold
\* the mesh when the loops have run
generate_mesh_self(self, resolution) == IF "segments" \in DOMAIN self THEN [self EXCEPT !.vertices = mesh_vertices(self.segments, resolution), !.faces = mesh_faces(self.segments, resolution)] ELSE [vertices |-> <<>>, faces |-> <<>>] @@ self

\* test_exporter.py 12-36: the three sample segments, and the first two of them
nozzle_segments ==
    <<[start_x |-> Zero, start_radius |-> Dec(5, 100), end_x |-> Dec(1, 10), end_radius |-> Dec(3, 100)],
      [start_x |-> Dec(1, 10), start_radius |-> Dec(3, 100), end_x |-> Dec(2, 10), end_radius |-> Dec(3, 100)],
      [start_x |-> Dec(2, 10), start_radius |-> Dec(3, 100), end_x |-> Dec(4, 10), end_radius |-> Dec(6, 100)]>>

MeshSegmentLists == {nozzle_segments, SubSeq(nozzle_segments, 1, 2)}

Exporters == {NozzleExporter(segments) : segments \in MeshSegmentLists} \cup {NozzleModelExporter(segments) : segments \in MeshSegmentLists}

MaxResolution == 3

\* the small resolutions, the wrap-around only case 1 among them, and the
\* three of test_resolution_effects
Resolutions == (1..MaxResolution) \cup {10, 20, 40}

\* generate_mesh is called on a fresh exporter; args keeps the exporter as the
\* call leaves it
Exporter_generate_mesh ==
    /\ op = "none"
    /\ \E self \in Exporters, resolution \in Resolutions :
          /\ op' = "generate_mesh"
          /\ args' = [self |-> generate_mesh_self(self, resolution), resolution |-> resolution]
          /\ result' = generate_mesh(self, resolution)
    /\ UNCHANGED <<nozzle, instance, materials, database, session>>

MaxTime == 2

\* the instants datetime.now() is drawn from
Times == 1..MaxTime

MaxSessions == 2

SessionOps == {"DesignSession", "save_session", "load_session", "delete_session"}

\* the client starts a new design: self.current_session = DesignSession()
DesignSession_init ==
    /\ op \in {"none"} \cup SessionOps
    /\ \E now \in Times :
          /\ op' = "DesignSession"
          /\ args' = [name |-> "design"]
          /\ session' = DesignSession("design", now)
          /\ result' = Returned(session')
    /\ UNCHANGED <<nozzle, instance, materials, database>>

\* save_session of the client's current session; at most MaxSessions ids are
\* handed out
SessionManager_save_session ==
    /\ op \in SessionOps
    /\ session # None
    /\ session.id = None => database.sequence < MaxSessions
    /\ \E now \in Times :
          /\ op' = "save_session"
          /\ args' = [session |-> session]
          /\ result' = save_session(database, session, now)
          /\ database' = save_session_database(database, session, now)
          /\ session' = save_session_session(database, session, now)
    /\ UNCHANGED <<nozzle, instance, materials>>

\* load_session; the client goes on with the session that was returned
SessionManager_load_session ==
    /\ op \in SessionOps
    /\ \E session_id \in 1..MaxSessions :
          /\ op' = "load_session"
          /\ args' = [session_id |-> session_id]
          /\ result' = load_session(database, session_id)
          /\ session' = IF result'.status = "ok" THEN result'.value ELSE session
    /\ UNCHANGED <<nozzle, instance, materials, database>>

SessionManager_delete_session ==
    /\ op \in SessionOps
    /\ \E session_id \in 1..MaxSessions :
          /\ op' = "delete_session"
          /\ args' = [session_id |-> session_id]
          /\ result' = Returned(None)
          /\ database' = delete_session(database, session_id)
    /\ UNCHANGED <<nozzle, instance, materials, session>>

Next ==
    \/ FlowRegime_calculate_mach_from_area
    \/ Engineering_calculate_mach_from_area
    \/ FlowRegime_determine_flow_regime
    \/ Engineering_calculate_segments
    \/ NozzleGeometryCalculator_generate_segments
    \/ ConicalNozzle_init
    \/ AerospikeNozzle_init
    \/ Nozzle_get_radius
    \/ Nozzle_get_segments
    \/ NozzleGeometry_calculate_performance_metrics
    \/ Engineering_calculate_performance_metrics
    \/ FlowRegime_round_trip
    \/ ConvergingDivergingNozzle_calculate_flow
    \/ ConvergingNozzle_calculate_flow
    \/ NozzleGeometryCalculator_calculate_geometry
    \/ NozzleGeometryCalculator_optimize_for_mach
    \/ Materials_get_material
    \/ Evaluations_start
    \/ Evaluation_calculate_mach_from_area
    \/ Evaluation_determine_flow_regime
    \/ Evaluation_calculate_segments
    \/ Exporter_generate_mesh
    \/ BellNozzle_init
    \/ DualBellNozzle_init
    \/ DesignSession_init
    \/ SessionManager_save_session
    \/ SessionManager_load_session
    \/ SessionManager_delete_session

Spec == Init /\ [][Next]_vars

----------------------------------------------------------------------------
(* Claims                                                                  *)

MachInversions == {"FlowRegime.calculate_mach_from_area",
                   "NozzleGeometryCalculator.calculate_mach_from_area"}

\* C1: every Mach-from-area-ratio inversion that returns a Mach number returns
\* one whose area-ratio residual is below 1e-6; otherwise it raises.  Stated
\* for the area ratios that have a root (area_ratio >= 1) only.
C1_ReturnedMachHasSmallResidual ==
    (op \in MachInversions /\ result.status = "ok" /\ FGe(args.area_ratio, One))
        => FLt(FAbs(mach_equation(result.value, args.area_ratio)), tol)

\* C2: at back_pressure = inlet_pressure * r_crit exactly, determine_flow_regime
\* returns "choked".
C2_ChokedAtCriticalBoundary ==
    (/\ op = "determine_flow_regime"
     /\ result.status = "ok"
     /\ args.back_pressure = FMul(args.inlet_pressure, critical_pressure_ratio))
        => result.value = "choked"

Regimes == {"subsonic", "choked", "over-expanded", "under-expanded"}

\* the precondition of C3 on a classification that returned: inlet pressure
\* above zero and r_design <= r_crit <= 1
C3_PreAt(a, design_mach) ==
    /\ design_mach.status = "ok"
    /\ FGt(a.inlet_pressure, Zero)
    /\ FLe(design_pressure_ratio(design_mach.value), critical_pressure_ratio)
    /\ FLe(critical_pressure_ratio, One)

C3_Pre(a) == C3_PreAt(a, calculate_mach_from_area(a.area_ratio, FALSE))

C3_DesignPressure(a) ==
    FMul(a.inlet_pressure,
         design_pressure_ratio(calculate_mach_from_area(a.area_ratio, FALSE).value))

C3_Partition(o, a, r) ==
    (o = "determine_flow_regime" /\ r.status = "ok" /\ C3_Pre(a))
        => /\ r.value \in Regimes
           /\ r.value = "subsonic" <=> FGt(a.back_pressure, a.inlet_pressure)
           /\ r.value = "under-expanded"
                 <=> FLe(a.back_pressure, C3_DesignPressure(a))
           /\ r.value = "choked" => FGt(a.back_pressure, C3_DesignPressure(a))

C3_Order ==
    (/\ op = "determine_flow_regime" /\ op' = "determine_flow_regime"
     /\ result.status = "ok" /\ result'.status = "ok"
     /\ args.inlet_pressure = args'.inlet_pressure
     /\ args.area_ratio = args'.area_ratio
     /\ C3_Pre(args))
        => /\ ~(/\ result.value = "choked" /\ result'.value = "over-expanded"
                /\ FLt(args.back_pressure, args'.back_pressure))
           /\ ~(/\ result.value = "over-expanded" /\ result'.value = "choked"
                /\ FLt(args'.back_pressure, args.back_pressure))

\* C3: with inlet pressure > 0 and r_design <= r_crit <= 1, determine_flow_regime
\* returns one of the four regimes: "subsonic" exactly when Pb > P0,
\* "under-expanded" exactly when Pb <= P0 * r_design, "choked" or "over-expanded"
\* in between, "choked" only above P0 * r_design, and of two classifications under
\* the same inlet pressure and area ratio the choked one never has the lower
\* back pressure of a choked and an over-expanded one.
C3_RegimePartition == [][C3_Partition(op', args', result') /\ C3_Order]_vars

\* C3 happens: a back pressure exactly at the design threshold is classified
\* under-expanded, next to a choked classification of the same nozzle
C3_Witness ==
    /\ op = "determine_flow_regime" /\ result.status = "ok" /\ C3_Pre(args)
    /\ args.back_pressure = C3_DesignPressure(args)
    /\ result.value = "under-expanded"
    /\ args.area_ratio = FromInt(2)

\* C4: for area_ratio = 1.0 both branch requests return exactly 1.0 and perform
\* no solver iteration.
C4_ThroatReturnsOneWithoutIteration ==
    (op \in MachInversions /\ args.area_ratio = One)
        => /\ result.status = "ok"
           /\ result.value = One
           /\ result.iterations = 0

\* the operations that return a segment list
SegmentBuilders == {"calculate_segments", "_generate_segments", "get_segments"}

\* the length the list was built over
BuiltLength == IF op = "get_segments" THEN nozzle.length ELSE args.length

\* C5: in every generated segment list, built over a positive length,
\* segments[i].end_x = segments[i+1].start_x for all consecutive i.
C5_SegmentsContiguous ==
    (op \in SegmentBuilders /\ result.status = "ok" /\ FGt(BuiltLength, Zero))
        => \A i \in 1..(Len(result.value) - 1) :
              result.value[i].end_x = result.value[i + 1].start_x

\* C5 happens: calculate_segments returned its N_SEGMENTS segments over a
\* positive length, the last one ending at the length
C5_Witness ==
    /\ op = "calculate_segments" /\ result.status = "ok"
    /\ FGt(args.length, Zero)
    /\ Len(result.value) = N_SEGMENTS
    /\ result.value[1].end_x = result.value[2].start_x
    /\ FGt(result.value[2].start_x, Zero)
    /\ FGt(result.value[N_SEGMENTS].start_x, result.value[2].start_x)

\* C6: in every generated segment list with exit_radius >= throat_radius (and a
\* positive length), over the diverging section area_ratio is non-decreasing and
\* each diverging segment has start_radius <= end_radius.
C6_DivergingSectionMonotone ==
    (/\ op = "calculate_segments" /\ result.status = "ok"
     /\ FGe(args.exit_radius, args.throat_radius)
     /\ FGt(args.throat_radius, Zero) /\ FGt(args.length, Zero))
        => \A i \in 2..Len(result.value) :
              /\ FLe(result.value[i].start_radius, result.value[i].end_radius)
              /\ i < Len(result.value)
                    => FLe(result.value[i].area_ratio, result.value[i + 1].area_ratio)

\* C7: every segment list a segment builder returns has length >= 2, is in
\* increasing x order, and its first segment has area_ratio 1.0.
C7_SegmentListShape ==
    (op \in SegmentBuilders /\ result.status = "ok")
        => /\ Len(result.value) >= 2
           /\ \A i \in 1..(Len(result.value) - 1) :
                 FLt(result.value[i].start_x, result.value[i + 1].start_x)
           /\ result.value[1].area_ratio = One

\* radii and length that are non-physical: a radius at or below zero, an exit
\* narrower than the throat, a length at or below zero
NonPhysical(a) ==
    \/ FLe(a.throat_radius, Zero)
    \/ FLe(a.exit_radius, Zero)
    \/ FLt(a.exit_radius, a.throat_radius)
    \/ FLe(a.length, Zero)

\* C8: non-physical inputs are rejected before any computation: no contour and
\* no segment list is produced from them.
C8_NonPhysicalInputsRejected ==
    (op \in {"ConicalNozzle", "calculate_segments"} /\ NonPhysical(args))
        => result.status # "ok"

\* C9: every successfully constructed AerospikeNozzle (from physical radii and
\* length) has get_radius(x) > 0 for all x in [0, length].
C9_AerospikeRadiusPositive ==
    (/\ op = "get_radius" /\ nozzle.class = "AerospikeNozzle"
     /\ ~NonPhysical(nozzle))
        => FGt(result.value, Zero)

PerformanceEvaluators == {"_calculate_performance_metrics",
                          "calculate_performance_metrics"}

\* C10: every performance-metrics mapping that is returned has its efficiency
\* in (0, 1].
C10_EfficiencyInUnitInterval ==
    (op \in PerformanceEvaluators /\ result.status = "ok")
        => /\ FGt(result.value.efficiency, Zero)
           /\ FLe(result.value.efficiency, One)

\* tan(15 deg) = 2 - sqrt(3), the slope of the drawn wall angle
TanFifteen == FSub(FromInt(2), FSqrt(FromInt(3)))

\* |a - b| < eps
Within(a, b, eps) == FLt(FAbs(FSub(a, b)), eps)

\* C11: for a ConicalNozzle get_radius(0) = throat_radius, get_radius(x) =
\* throat_radius + x*tan(wall_angle) for every x (to 1e-9, with the slope of
\* 15 degrees written out), and the result is the same whatever the exit_radius.
C11_ConicalRadiusAngleDriven ==
    (op = "get_radius" /\ nozzle.class = "ConicalNozzle")
        => /\ args.x = Zero => result.value = nozzle.throat_radius
           /\ Within(result.value,
                     FAdd(nozzle.throat_radius, FMul(args.x, TanFifteen)),
                     Dec(1, 10^8))
           /\ \A exit_radius \in Radii :
                 result.value = get_radius([nozzle EXCEPT !.exit_radius = exit_radius],
                                           args.x)

\* C11 happens: the radius at the end of a conical nozzle whose exit_radius is
\* not what the angle gives
C11_Witness ==
    /\ op = "get_radius" /\ nozzle.class = "ConicalNozzle"
    /\ FGt(nozzle.length, Zero) /\ args.x = nozzle.length
    /\ FGt(result.value, nozzle.throat_radius)
    /\ result.value # nozzle.exit_radius

\* C12: inverting area_ratio(M) with the branch on M's side of 1.0 recovers M
\* within 1e-4.
C12_RoundTripRecoversMach ==
    op = "round_trip"
        => /\ result.status = "ok"
           /\ Within(result.value, args.mach, Dec(1, 10^4))

\* the Mach number the solver gives again for the stored area ratio of a
\* segment is the stored Mach number, within 1e-4
RederivedMachMatches(segment, mach) ==
    /\ mach.status = "ok"
    /\ Within(mach.value, segment.mach_number, Dec(1, 10^4))

\* C13: for every segment of a built geometry, the throat segment included,
\* the solver applied to the segment's stored area_ratio gives the segment's
\* stored mach_number within 1e-4.
C13_SegmentMachRederived ==
    (op = "calculate_segments" /\ result.status = "ok")
        => \A i \in 1..Len(result.value) :
              RederivedMachMatches(result.value[i],
                  engineering_calculate_mach_from_area(result.value[i].area_ratio))

\* the branch of the area-Mach relation an initial guess lies on
BranchOfGuess(m0) == IF FLt(m0, One) THEN "subsonic" ELSE "supersonic"

\* a station solved on branch agrees with the regime the classifier reports
BranchFollowsRegime(branch, flow_regime, behind_shock) ==
    (branch = "subsonic") <=> (flow_regime \in {"subsonic", "choked"} \/ behind_shock)

\* the stations of a calculated flow whose Mach number was solved were solved
\* on the branch of the classified regime
FlowStationsFollowRegime(states) ==
    \A i \in 1..Len(states) :
        states[i].branch # "none"
            => BranchFollowsRegime(states[i].branch, states[i].flow_regime,
                                   \E j \in 1..(i - 1) : states[j].is_shock)

\* back pressures an evaluation of a segment list can run against: vacuum, and
\* twice the chamber pressure
StationBackPressures == {Zero, FMul(FromInt(2), chamber_pressure)}

\* the branch the segment's Mach number was solved on agrees with what the
\* classifier reports for the segment's area ratio at back_pressure
SegmentFollowsRegime(flow_regime) ==
    flow_regime.status = "ok"
        => BranchFollowsRegime(BranchOfGuess(engineering_initial_guess),
                               flow_regime.value, FALSE)

\* C14: the Mach branch a station is solved on follows the classified regime:
\* subsonic exactly when the classifier reports "subsonic" or "choked" or the
\* station lies behind a shock, supersonic otherwise; this holds for the
\* stations of calculate_flow and for the solved segments of
\* calculate_segments at every back pressure.
C14_BranchFollowsRegime ==
    /\ (op = "diverging_calculate_flow" /\ result.status = "ok")
            => FlowStationsFollowRegime(result.value)
    /\ (op = "calculate_segments" /\ result.status = "ok")
            => \A i \in 2..Len(result.value), back_pressure \in StationBackPressures :
                  SegmentFollowsRegime(
                      determine_flow_regime(chamber_pressure, back_pressure,
                                            result.value[i].area_ratio))

\* the stations of ConvergingDivergingNozzle.calculate_flow follow the regime
C14_FlowStations ==
    (op = "diverging_calculate_flow" /\ result.status = "ok")
        => FlowStationsFollowRegime(result.value)

\* every FlowState of a returned list has area_ratio >= 1 and mach >= 0
FlowStatesAtLeastThroat(states) ==
    \A i \in 1..Len(states) :
        /\ FGe(states[i].area_ratio, One)
        /\ FGe(states[i].mach, Zero)

\* the lists calculate_flow does return hold no state below the throat area
ReturnedFlowStatesAtLeastThroat ==
    (op \in {"diverging_calculate_flow", "converging_calculate_flow"}
        /\ result.status = "ok")
        => FlowStatesAtLeastThroat(result.value)

C16_CalculateGeometryReturns ==
    op = "calculate_geometry"
        => /\ result.status = "ok"
           /\ Len(result.value.segments) > 0
           /\ {"thrust_coefficient", "specific_impulse", "efficiency", "exit_mach"}
                 \subseteq DOMAIN result.value.performance_metrics

\* C17: optimize_for_mach returns a geometry whose last segment's Mach number
\* is within 0.1 of the target Mach number.
C17_OptimizedExitMachNearTarget ==
    op = "optimize_for_mach"
        => /\ result.status = "ok"
           /\ Within(result.value.segments[Len(result.value.segments)].mach_number,
                     args.target_mach, Dec(1, 10))

\* C18: no segment is returned with a wall temperature above the maximum
\* temperature of the material it was calculated for.
C18_WallTemperatureBelowMaximum ==
    (op = "calculate_segments" /\ result.status = "ok")
        => \A i \in 1..Len(result.value) :
              FLe(result.value[i].wall_temperature,
                  DEFAULT_MATERIALS[args.material].max_temperature)

\* what the evaluation of input returns from its k-th core operation when it
\* runs alone on freshly constructed instances
Alone(k, input) == on_instance(Instances, core_operation(k, input))

UpperOf(c) == ascii_uppercase[CHOOSE j \in 1..Len(ascii_lowercase) : ascii_lowercase[j] = c]

\* name spells key, each letter in either case
SpellsKey(name, key) ==
    /\ Len(name) = Len(key)
    /\ \A i \in 1..Len(key) : name[i] \in {key[i], UpperOf(key[i])}

\* C20: get_material(name) returns the MATERIALS entry keyed by the name in
\* lower case and raises ValueError when there is none; either way the table
\* stays as it was created.
C20_GetMaterialByLowerCasedName ==
    /\ materials = MATERIALS
    /\ op = "get_material"
            => /\ \A key \in DOMAIN MATERIALS :
                     SpellsKey(args.name, key) => result = Returned(MATERIALS[key])
               /\ (\A key \in DOMAIN MATERIALS : ~SpellsKey(args.name, key))
                     => result = Raised("ValueError")

C20_Witness ==
    /\ op = "get_material"
    /\ args.name = <<"C", "O", "P", "P", "E", "R">>
    /\ result.status = "ok"
    /\ result.value.melting_point = Dec(135777, 100)

\* the vertex indices of all faces lie in 0 .. number of vertices - 1
FacesInBounds(mesh) == \A n \in DOMAIN mesh.faces : \A k \in 1..3 : mesh.faces[n][k] >= 0 /\ mesh.faces[n][k] < Len(mesh.vertices)

\* the index property on the meshes that are returned (by NozzleModelExporter)
ReturnedFacesInBounds == (op = "generate_mesh" /\ result.status = "ok") => FacesInBounds(result.value)

\* C21: for a segment list of at least two segments and a resolution of at
\* least 1, generate_mesh of exporter.py's NozzleExporter returns a mesh, and
\* every vertex index of every face of it is at least 0 and less than the
\* number of vertices
C21_MeshFacesInBounds == (op = "generate_mesh" /\ args.self.class = "NozzleExporter") => (result.status = "ok" /\ FacesInBounds(result.value))

\* a/b lies strictly between 3.5 and 4.5
RoughlyQuadratic(a, b) == 10 * a > 35 * b /\ 10 * a < 45 * b

Counts(mesh, doubled) == /\ Len(doubled.vertices) > Len(mesh.vertices)
                         /\ Len(doubled.faces) > Len(mesh.faces)
                         /\ RoughlyQuadratic(Len(doubled.vertices), Len(mesh.vertices))

\* C22: after generate_mesh at resolution 10 or 20, generate_mesh on the same
\* exporter at twice the resolution returns strictly more vertices and faces,
\* and between 3.5 and 4.5 times as many vertices
C22_DoubledResolutionQuadruplesVertices == (op = "generate_mesh" /\ args.resolution \in {10, 20}) => (result.status = "ok" /\ generate_mesh(args.self, 2 * args.resolution).status = "ok" /\ Counts(result.value, generate_mesh(args.self, 2 * args.resolution).value))

\* what holds of the meshes that are returned: twice the resolution gives
\* exactly twice the vertices and twice the faces
DoubledResolutionDoublesVertices == (op = "generate_mesh" /\ result.status = "ok" /\ args.resolution \in {10, 20}) => (Len(generate_mesh(args.self, 2 * args.resolution).value.vertices) = 2 * Len(result.value.vertices) /\ Len(generate_mesh(args.self, 2 * args.resolution).value.faces) = 2 * Len(result.value.faces))

\* the four contour families
ContourFamilies == {"ConicalNozzle", "BellNozzle", "DualBellNozzle", "AerospikeNozzle"}

\* C23: for every contour family, get_radius(x) at a station x in [0, length]
\* returns a radius, also for a DualBellNozzle at or beyond its inflection
\* point length*inflection_point
C23_GetRadiusReturns == (op = "get_radius" /\ nozzle.class \in ContourFamilies /\ FLe(Zero, args.x) /\ FLe(args.x, nozzle.length)) => result.status = "ok"

\* what holds of the two bells: the call returns before the inflection point
\* and only there
DualBellReturnsBeforeInflection == (op = "get_radius" /\ nozzle.class = "DualBellNozzle") => (result.status = "ok" <=> FLt(args.x, FMul(nozzle.length, nozzle.inflection_point)))

\* C30: for every contour family the contour starts at the throat:
\* get_radius(0) = throat_radius
C30_ContourStartsAtThroat == (op = "get_radius" /\ nozzle.class \in ContourFamilies /\ args.x = Zero) => (result.status = "ok" /\ result.value = nozzle.throat_radius)

\* what the four families return at x = 0: the throat radius (conical,
\* dual-bell), twice the throat radius (bell, throat arc at angle 0) and
\* zero (aerospike, outer wall minus spike); the dual bell with its inflection
\* point at 0 would not return
RadiusAtZero(self) == IF self.class = "BellNozzle" /\ FGt(self.throat_radius, Zero) THEN FMul(self.throat_radius, FromInt(2)) ELSE IF self.class = "AerospikeNozzle" THEN Zero ELSE self.throat_radius

GetRadiusAtZero == (op = "get_radius" /\ args.x = Zero /\ result.status = "ok") => result.value = RadiusAtZero(nozzle)

\* C24: every Mach root-find ends within its iteration cap: _solve_newton
\* makes at most max_iter Newton steps, returning, raising on a division by
\* zero or, after max_iter steps without convergence, raising ValueError; the
\* engineering calculate_mach_from_area makes at most range_iterations steps
\* and then returns its iterate
C24_RootFindsCapped ==
    /\ op \in {"FlowRegime.calculate_mach_from_area", "round_trip"}
          => /\ result.status \in {"ok", "ValueError", "ZeroDivisionError"}
             /\ result.iterations <= max_iter
             /\ result.status = "ValueError" <=> (result.iterations = max_iter /\ "value" \notin DOMAIN result)
    /\ op = "NozzleGeometryCalculator.calculate_mach_from_area"
          => /\ result.status \in {"ok", "ZeroDivisionError"}
             /\ result.iterations <= range_iterations

\* a root-find without a root (area ratio 0.5) used up all max_iter steps and
\* raised
C24_Witness == op = "FlowRegime.calculate_mach_from_area" /\ args.area_ratio = Dec(5, 10) /\ result.status = "ValueError" /\ result.iterations = max_iter

\* the state of the loop of _solve_newton after n Newton steps
iterate_after(area_ratio, x0, n) == IF n = 0 THEN Running(x0, 0) ELSE newton_passes(area_ratio, Running(x0, 0), n)

\* the finite-difference derivative of _solve_newton at x is below 1e-10 in size
SmallDerivativeAt(area_ratio, x) == x # Zero /\ FAdd(x, h) # Zero /\ FLt(FAbs(FDiv(FSub(mach_equation(FAdd(x, h), area_ratio), mach_equation(x, area_ratio)), h)), FMul(Dec(1, 10^5), Dec(1, 10^5)))

\* the last iterate of the call recorded in args and result meets a
\* derivative below 1e-10
MetSmallDerivative == iterate_after(args.area_ratio, initial_guess(args.is_subsonic), result.iterations).status = "running" /\ SmallDerivativeAt(args.area_ratio, iterate_after(args.area_ratio, initial_guess(args.is_subsonic), result.iterations).x)

\* m lies in the bracket of its branch: [0.01, 1.0) subsonic, (1.0, 50]
\* supersonic
InBracket(m, is_subsonic) == IF is_subsonic THEN FGe(m, Dec(1, 100)) /\ FLt(m, One) ELSE FGt(m, One) /\ FLe(m, FromInt(50))

\* C25: the Newton step never divides by a near-zero derivative: a call of
\* calculate_mach_from_area whose iterate meets a finite-difference derivative
\* below 1e-10 in size does not compute fx/dfx there but goes on by bisection
\* in the bracket of its branch, so it neither raises ZeroDivisionError nor
\* leaves the bracket
C25_NoDivisionBySmallDerivative == (op = "FlowRegime.calculate_mach_from_area" /\ MetSmallDerivative) => (result.status = "ok" /\ InBracket(result.value, args.is_subsonic))

\* the pressure and the temperature of s are the isentropic ones of its Mach
\* number under the stagnation reference (P0, T0)
FromStagnation(s, P0, T0) == /\ s.pressure = calculate_flow_state(s.mach, P0, T0, s.area_ratio, s.flow_regime, s.branch).pressure
                             /\ s.temperature = calculate_flow_state(s.mach, P0, T0, s.area_ratio, s.flow_regime, s.branch).temperature

\* C26: every FlowState that ConvergingDivergingNozzle.calculate_flow returns
\* by the isentropic relations (every state but the post-shock one) has the
\* pressure and the temperature of its Mach number under the chamber
\* stagnation reference, the inlet P0 and T0; none is referenced to the static
\* pressure and temperature of another station
C26_StatesFromChamberStagnation == (op = "diverging_calculate_flow" /\ result.status = "ok") => \A k \in DOMAIN result.value : ~result.value[k].is_shock => FromStagnation(result.value[k], args.inlet_pressure, args.inlet_temp)

\* what holds instead: the last state of a choked or shocked result is
\* referenced to the static values of the state before it, every other
\* isentropic state to the chamber
ExitFromStationBefore == (op = "diverging_calculate_flow" /\ result.status = "ok") => \A k \in DOMAIN result.value : ~result.value[k].is_shock => IF k > 1 /\ k = Len(result.value) THEN FromStagnation(result.value[k], result.value[k - 1].pressure, result.value[k - 1].temperature) ELSE FromStagnation(result.value[k], args.inlet_pressure, args.inlet_temp)

\* the regime calculate_flow classified the recorded call as
ClassifiedAs(flow_regime) == determine_flow_regime(args.inlet_pressure, args.back_pressure, args.area_ratio) = Returned(flow_regime)

\* _find_shock_location of the recorded call gave the fixed area ratio 1.5
ShockLocated == find_shock_location(args.area_ratio, FDiv(args.back_pressure, args.inlet_pressure)) = Returned(shock_area_ratio)

\* three states, of which the second and only the second is a shock
PreShockPostShockExit(states) == Len(states) = 3 /\ ~states[1].is_shock /\ states[2].is_shock /\ ~states[3].is_shock

\* C27: whenever ConvergingDivergingNozzle.calculate_flow classifies the
\* regime as over-expanded, _find_shock_location returns 1.5 and the result is
\* exactly the three states pre-shock, post-shock, exit, of which exactly the
\* post-shock state has is_shock set; in every other regime no returned state
\* has is_shock set
C27_OverExpandedGivesShockTriple ==
    op = "diverging_calculate_flow"
        => /\ ClassifiedAs("over-expanded")
                => (ShockLocated /\ result.status = "ok" /\ PreShockPostShockExit(result.value))
           /\ (~ClassifiedAs("over-expanded") /\ result.status = "ok")
                => \A k \in DOMAIN result.value : ~result.value[k].is_shock

\* what holds: the shock is always located at 1.5 in the over-expanded regime,
\* and the results that are returned have the shape of the claim
ReturnedShockTriples ==
    op = "diverging_calculate_flow"
        => /\ ClassifiedAs("over-expanded")
                => (ShockLocated /\ (result.status = "ok" => PreShockPostShockExit(result.value)))
           /\ (~ClassifiedAs("over-expanded") /\ result.status = "ok")
                => \A k \in DOMAIN result.value : ~result.value[k].is_shock

\* C28: ConvergingNozzle.calculate_flow returns exactly one FlowState, and its
\* flow_regime is subsonic or choked for every pair of inlet and back
\* pressure; a state with exit Mach 1.0 is never labelled over-expanded or
\* under-expanded
C28_ConvergingSubsonicOrChoked == op = "converging_calculate_flow" => (result.status = "ok" /\ Len(result.value) = 1 /\ result.value[1].flow_regime \in {"subsonic", "choked"})

\* what holds: one state is returned, labelled as determine_flow_regime
\* classified the pressures for the area ratio 1.0, with Mach 1.0 unless that
\* label is subsonic
ConvergingLabelledAsClassified == op = "converging_calculate_flow" => (result.status = "ok" /\ Len(result.value) = 1 /\ determine_flow_regime(args.inlet_pressure, args.back_pressure, One) = Returned(result.value[1].flow_regime) /\ (result.value[1].flow_regime # "subsonic" => result.value[1].mach = One))

\* load-then-save of the id k on the table db leaves the number of rows as
\* it is
LoadThenSaveKeepsRows(db, k) == \A now \in Times : DOMAIN save_session_database(db, load_session(db, k).value, now).rows = DOMAIN db.rows

\* C29: whenever save_session(s) has returned the id k, load_session(k)
\* succeeds and returns a session whose id is k, and saving that loaded
\* session updates row k: the number of stored rows is unchanged by the
\* load-then-save
C29_SavedSessionLoadsWithItsId == op = "save_session" => (load_session(database, result.value.value).status = "ok" /\ load_session(database, result.value.value).value.id = result.value /\ LoadThenSaveKeepsRows(database, result.value.value))

\* what holds: the id save_session returns is the id of the session object
\* it was given, which is then stored; the row, if there is one, holds the
\* data as they were before that call assigned the id
SaveReturnsIdOfItsArgument == op = "save_session" => (session.id = result.value /\ (result.value.value \in DOMAIN database.rows => load_session(database, result.value.value).value.id = args.session.id))

====
